---- MODULE Spec2Model ----
(***************************************************************************)
(* The arousal state controller of src/enhanced/consciousness.py           *)
(* (class Consciousness): its five levels, change_state, the persisted     *)
(* document, the cadence-gated state tasks and the time-based transitions  *)
(* of one monitor-loop tick.                                               *)
(*                                                                         *)
(* Time is counted in whole minutes since midnight of day 0.  A datetime   *)
(* is an integer number of minutes, a timedelta a difference of two.       *)
(***************************************************************************)
EXTENDS Integers, Sequences, FiniteSets, TLC

VARIABLES
    state,              \* self.state: the current level
    state_history,      \* self.state_history: list of transitions
    last_state_change,  \* self.last_state_change
    last_activity,      \* self.last_activity: dict activity type -> datetime
    state_queue,        \* self.state_queue: transitions awaiting the loop
    event_handlers,     \* self.event_handlers: level -> list of handlers
    invoked,            \* the handler calls made so far, in order
    state_file,         \* the persisted document: <<>> (no file) or <<doc>>
    now,                \* datetime.now()
    ret,                \* the last public call and what it returned
    active,             \* self.active: the flag the monitor loop tests
    threads,            \* the monitor threads started so far: where each is
    call                \* the mutation a caller is in the middle of, if any

vars == <<state, state_history, last_state_change, last_activity, state_queue,
          event_handlers, invoked, state_file, now, ret, active, threads, call>>

-----------------------------------------------------------------------------
(* Bounds of the model. *)

\* Transitions kept in memory before the model stops making more.
MaxHist == 3
\* The same, for the specification that fills the history past HistoryKeep.
MaxLongHist == 52
\* The clock stops here in the short-range specification (minutes).
MaxTime == 130
\* The clock stops here in the specification of should_transition (minutes).
MaxAdviceTime == 481
\* The clock stops here in the day-range specification (minutes).
MaxDayTime == 1625
\* Handlers registered per level.
MaxHandlers == 2
\* SpecCadence: the clock stops here, and the history holds this many entries.
MaxCadenceTime == 61
MaxCadenceHist == 2
\* SpecLoad: the history holds this many entries.
MaxLoadHist == 2
\* SpecReaders: the history holds this many entries.
MaxReadHist == 2
\* SpecThreads: start() creates this many monitor threads.
MaxThreads == 2
\* SpecAnalyses: a metric history holds every combination of the samples up
\* to MaxSeries points, or one repeated sample up to MaxLongSeries points.
MaxSeries == 4
MaxLongSeries == 25
\* SpecForecast: a fitted series has up to MaxFit points, besides the
\* 25-point example; a validation error is at most MaxError.
MaxFit == 4
\* SpecVisits: the clock stops at MaxVisitTime, the history at MaxVisitHist.
MaxVisitTime == 64
MaxVisitHist == 3
\* SpecQueries: the history stops at MaxQueryHist.
MaxQueryHist == 2
\* SpecDecay: the clock stops at MaxDecayTime, past the time the limits of
\* ALERT, AWARE and DROWSY take one after the other.
MaxDecayTime == 810
\* SpecChain: the clock stops at MaxChainTime, the history at MaxChainHist.
MaxChainTime == 241
MaxChainHist == 3
MaxError == 100

-----------------------------------------------------------------------------
(* class ConsciousnessState(Enum): auto() numbers the members from 1. *)

DORMANT == 1
DROWSY == 2
AWARE == 3
ALERT == 4
FULLY_AWAKE == 5

ConsciousnessState == {DORMANT, DROWSY, AWARE, ALERT, FULLY_AWAKE}

\* ConsciousnessState.<member>.name
Name(s) ==
    CASE s = DORMANT -> "DORMANT"
      [] s = DROWSY -> "DROWSY"
      [] s = AWARE -> "AWARE"
      [] s = ALERT -> "ALERT"
      [] s = FULLY_AWAKE -> "FULLY_AWAKE"

\* ConsciousnessState[name]: the member, or a KeyError (modelled as <<>>).
StateByName(name) ==
    IF \E s \in ConsciousnessState : Name(s) = name
    THEN <<CHOOSE s \in ConsciousnessState : Name(s) = name>>
    ELSE <<>>

-----------------------------------------------------------------------------
(* timedelta constants of the source, in minutes. *)

MinutesPerHour == 60
MinutesPerDay == 1440
HistoryKeep == 50           \* state_history[-50:] in _save_state
DrowsyInterval == 480       \* timedelta(hours=8), should_transition
DrowsyCadence == 480        \* timedelta(hours=8), drowsy_analysis
AwareCadence == 240         \* timedelta(hours=4), aware_analysis
AlertCadence == 60          \* timedelta(hours=1), alert_analysis
FullCadence == 15           \* timedelta(minutes=15), full_analysis
CalmPeriod == 30            \* timedelta(minutes=30), time_in_state() tests
FullLimit == 60             \* timedelta(hours=1), fully awake time limit
FullIdle == 30              \* timedelta(minutes=30), last action
AlertLimit == 240           \* timedelta(hours=4)
AwareLimit == 480           \* timedelta(hours=8)
DrowsyLinger == 15          \* timedelta(minutes=15)
WakeHour == 3               \* wake_hour = 3
MinTrendPoints == 2         \* len(data_points) >= 2, calculate_metric_trends
MinSlopePoints == 3         \* len(data_points) >= 3, calculate_metric_trends
MinAnomalyPoints == 3       \* len(values) < 3, detect_anomalies
MinForecastPoints == 24     \* len(history) < 24, forecast_metric
MinEnsemblePoints == 72     \* len(y) >= 72, _ensemble_forecast
MinValidation == 12         \* val_size >= 12, _ensemble_forecast
ZeroError == 1              \* mse[k] = 1e-10, in the unit of the errors
ScheduleDays == 7           \* for day in range(7)
HoursPerDay == 24           \* for hour in range(24)
DaysPerWeek == 7            \* timestamp.weekday()
Saturday == 5               \* timestamp.weekday() >= 5
ScoreCap == 100             \* min(100, ...)
MorningHour == 7            \* hour < 7
EveningHour == 19           \* hour >= 19
NightBonus == 50            \* score += 50
WeekendBonus == 25          \* score += 25
CombinedScore == 200        \* slot["score"] > 200
CpuCeiling == 50            \* forecasts[metric] < 0.5, in hundredths
MemoryCeiling == 50         \* forecasts[metric] < 500, in tens of MB
DiskFloor == 70             \* forecasts[metric] > 70

\* Optional values: None is the empty tuple, a value v is <<v>>.
None == <<>>
Some(v) == <<v>>

\* A serialization that writes the time of day without the date.
isoformat_time_only(t) ==
    [day |-> 0,
     hour |-> (t % MinutesPerDay) \div MinutesPerHour,
     minute |-> t % MinutesPerHour]

\* datetime.isoformat(): the text "YYYY-MM-DDTHH:MM", here its fields.
isoformat(t) ==
    [day |-> t \div MinutesPerDay,
     hour |-> (t % MinutesPerDay) \div MinutesPerHour,
     minute |-> t % MinutesPerHour]

\* datetime.fromisoformat(): the datetime the text denotes.
fromisoformat(iso) ==
    iso.day * MinutesPerDay + iso.hour * MinutesPerHour + iso.minute

\* datetime.hour
HourOf(t) == (t % MinutesPerDay) \div MinutesPerHour

\* A reason string: its fixed text and the issues joined into it.
Reason(text, issues) == [text |-> text, issues |-> issues]

-----------------------------------------------------------------------------
(* The controller object.  The operations below take and return the object *)
(* as a record `self`, so that one handler's calls compose in order.       *)

Self ==
    [state |-> state,
     state_history |-> state_history,
     last_state_change |-> last_state_change,
     last_activity |-> last_activity,
     state_queue |-> state_queue,
     invoked |-> invoked,
     state_file |-> state_file]

\* d[k] = v on a dict.
Put(d, k, v) == [x \in (DOMAIN d) \cup {k} |-> IF x = k THEN v ELSE d[x]]

\* seq[-n:]
LastN(seq, n) ==
    IF Len(seq) <= n THEN seq ELSE SubSeq(seq, Len(seq) - n + 1, Len(seq))

\* ConsciousnessTransition.to_dict
to_dict(t) ==
    [from_state |-> Name(t.from_state),
     to_state |-> Name(t.to_state),
     reason |-> t.reason,
     timestamp |-> isoformat(t.timestamp)]

\* Consciousness._save_state: the document written to state_file.
StateData(self) ==
    [state |-> Name(self.state),
     last_updated |-> isoformat(now),
     history |-> [i \in 1..Len(LastN(self.state_history, HistoryKeep)) |->
                     to_dict(LastN(self.state_history, HistoryKeep)[i])],
     last_activity |-> [k \in DOMAIN self.last_activity |->
                           isoformat(self.last_activity[k])]]

_save_state(self) == [self EXCEPT !.state_file = <<StateData(self)>>]

\* The handlers whose call raises an Exception.
RaisingHandlers == {"h2"}

\* The handlers that call change_state themselves, and the level each asks
\* for.
HandlerTarget ==
    [to_aware |-> AWARE, to_dormant |-> DORMANT]

RECURSIVE change_state(_, _, _)

\* One call handler(transition), as recorded in `invoked`: the transition
\* passed, what the handler finds in the object and in the state file, and
\* whether it raised.
Call(self, handler, old_state, new_state) ==
    [handler |-> handler,
     from_state |-> old_state,
     to_state |-> new_state,
     seen_state |-> self.state,
     seen_saved |-> IF self.state_file = <<>> THEN None
                    ELSE Some(self.state_file[1].state),
     raised |-> handler \in RaisingHandlers]

\* A _trigger_handlers whose loop ends at the first handler that raises.
_trigger_handlers_until_raise(self, old_state, new_state, reason) ==
    LET handlers == event_handlers[new_state]
        raising == {i \in DOMAIN handlers : handlers[i] \in RaisingHandlers}
        last == IF raising = {} THEN Len(handlers)
                ELSE CHOOSE i \in raising : \A j \in raising : i <= j
    IN  [self EXCEPT !.invoked = @ \o
            [i \in 1..last |-> Call(self, handlers[i], old_state, new_state)]]

\* for handler in self.event_handlers[new_state]: handler(transition), a
\* handler that calls change_state doing so on the object as it finds it.
RECURSIVE RunHandlers(_, _, _, _)
RunHandlers(self, handlers, old_state, new_state) ==
    IF handlers = <<>> THEN self
    ELSE LET handler == Head(handlers)
             called == [self EXCEPT !.invoked =
                           Append(@, Call(self, handler, old_state, new_state))]
             returned ==
                 IF handler \in DOMAIN HandlerTarget
                 THEN change_state(called, HandlerTarget[handler],
                                   Reason("Handler request", <<>>)).self
                 ELSE called
         IN  RunHandlers(returned, Tail(handlers), old_state, new_state)

\* Consciousness._trigger_handlers: every handler registered for new_state,
\* in registration order; an Exception a handler raises is caught and
\* logged, and the loop goes on.
_trigger_handlers(self, old_state, new_state, reason) ==
    RunHandlers(self, event_handlers[new_state], old_state, new_state)

\* A change_state that calls the handlers before it records the transition.
change_state_handlers_first(self, new_state, reason) ==
    IF new_state = self.state
    THEN [self |-> self, result |-> FALSE]
    ELSE LET transition == [from_state |-> self.state,
                            to_state |-> new_state,
                            reason |-> reason,
                            timestamp |-> now]
             handled == _trigger_handlers(self, self.state, new_state, reason)
             recorded == [handled EXCEPT
                             !.state_history = Append(@, transition),
                             !.state = new_state,
                             !.last_state_change = now]
             saved == _save_state(recorded)
         IN  [self |-> [saved EXCEPT !.state_queue = Append(@, transition)],
              result |-> TRUE]

\* A change_state without the early return on an unchanged level.
change_state_unguarded(self, new_state, reason) ==
    LET transition == [from_state |-> self.state,
                       to_state |-> new_state,
                       reason |-> reason,
                       timestamp |-> now]
        recorded == [self EXCEPT !.state_history = Append(@, transition),
                                 !.state = new_state,
                                 !.last_state_change = now]
        saved == _save_state(recorded)
        queued == [saved EXCEPT !.state_queue = Append(@, transition)]
    IN  [self |-> _trigger_handlers(queued, self.state, new_state, reason),
         result |-> TRUE]

\* Consciousness.change_state: the object afterwards and the value returned.
change_state(self, new_state, reason) ==
    IF new_state = self.state
    THEN [self |-> self, result |-> FALSE]
    ELSE LET transition == [from_state |-> self.state,
                            to_state |-> new_state,
                            reason |-> reason,
                            timestamp |-> now]
             recorded == [self EXCEPT !.state_history = Append(@, transition),
                                      !.state = new_state,
                                      !.last_state_change = now]
             saved == _save_state(recorded)
             queued == [saved EXCEPT !.state_queue = Append(@, transition)]
         IN  [self |-> _trigger_handlers(queued, self.state, new_state, reason),
              result |-> TRUE]

\* Consciousness.log_activity
log_activity(self, activity_type) ==
    _save_state([self EXCEPT !.last_activity = Put(@, activity_type, now)])

\* Consciousness.time_since_state_change: None, or the time since the most
\* recent transition into s.
time_since_state_change(self, s) ==
    LET hits == {i \in 1..Len(self.state_history) :
                    self.state_history[i].to_state = s}
    IN  IF hits = {} THEN None
        ELSE LET last == CHOOSE i \in hits : \A j \in hits : j <= i
             IN  Some(now - self.state_history[last].timestamp)

\* A DORMANT to DROWSY test that already passes at exactly eight hours.
DrowsyDueAtEight(time_since_last_drowsy) ==
    \/ time_since_last_drowsy = None
    \/ time_since_last_drowsy[1] >= DrowsyInterval

\* The DORMANT to DROWSY test of should_transition.
DrowsyDue(time_since_last_drowsy) ==
    \/ time_since_last_drowsy = None
    \/ time_since_last_drowsy[1] > DrowsyInterval

\* Consciousness.should_transition: None, or the reason.
should_transition(self, target_state) ==
    LET current_state == self.state
        since == time_since_state_change(self, DROWSY)
    IN  IF current_state = target_state THEN None
        ELSE IF current_state = DORMANT THEN
            IF target_state = DROWSY THEN
                IF DrowsyDue(since)
                THEN Some("Scheduled awakening for routine check")
                ELSE None
            ELSE IF target_state = AWARE
            THEN Some("Unusual metrics detected in biological monitoring")
            ELSE IF target_state \in {ALERT, FULLY_AWAKE}
            THEN Some("Critical issue detected by biological monitoring")
            ELSE None
        ELSE IF current_state = DROWSY THEN
            IF target_state = DORMANT
            THEN Some("All systems normal, returning to dormant state")
            ELSE IF target_state \in {AWARE, ALERT, FULLY_AWAKE}
            THEN Some("Issues detected during routine analysis")
            ELSE None
        ELSE IF current_state = AWARE THEN
            IF target_state \in {DORMANT, DROWSY}
            THEN Some("Situation resolved, reducing awareness level")
            ELSE IF target_state \in {ALERT, FULLY_AWAKE}
            THEN Some("Situation worsening, increasing awareness level")
            ELSE None
        ELSE IF current_state = ALERT THEN
            IF target_state \in {DORMANT, DROWSY, AWARE}
            THEN Some("Situation improving, reducing awareness level")
            ELSE IF target_state = FULLY_AWAKE
            THEN Some("Critical situation detected, full awareness required")
            ELSE None
        ELSE IF current_state = FULLY_AWAKE THEN
            IF target_state # FULLY_AWAKE
            THEN Some("Crisis resolved, reducing awareness level")
            ELSE None
        ELSE None

\* Consciousness._load_state on a freshly constructed object: the fields the
\* document sets.  A JSON value that is not a string (null, a number) where
\* the writer puts a string, or not an object where it puts one, is the
\* record [json |-> its kind].
NotAString(v) == "json" \in DOMAIN v

\* fromisoformat accepts the text.
ValidIso(iso) ==
    /\ DOMAIN iso = {"day", "hour", "minute"}
    /\ iso.day \in Nat /\ iso.hour \in 0..23 /\ iso.minute \in 0..59

\* What the body of the history loop does with one entry, statement by
\* statement: "ok" appends it; a KeyError or ValueError is caught inside the
\* loop and the entry is skipped; a TypeError (indexing an entry that is no
\* object, fromisoformat of a value that is no string) is caught by the
\* outer except only, which ends the load.
EntryOutcome(entry) ==
    IF NotAString(entry) THEN "abort"
    ELSE IF "from_state" \notin DOMAIN entry THEN "skip"
    ELSE IF StateByName(entry.from_state) = <<>> THEN "skip"
    ELSE IF "to_state" \notin DOMAIN entry THEN "skip"
    ELSE IF StateByName(entry.to_state) = <<>> THEN "skip"
    ELSE IF "reason" \notin DOMAIN entry THEN "skip"
    ELSE IF "timestamp" \notin DOMAIN entry THEN "skip"
    ELSE IF NotAString(entry.timestamp) THEN "abort"
    ELSE IF ~ValidIso(entry.timestamp) THEN "skip"
    ELSE "ok"

\* The history loop: the transitions appended, and whether the load ended
\* inside the loop.
RECURSIVE LoadHistory(_)
LoadHistory(entries) ==
    IF entries = <<>> THEN [loaded |-> <<>>, aborted |-> FALSE]
    ELSE LET entry == Head(entries)
             outcome == EntryOutcome(entry)
             rest == LoadHistory(Tail(entries))
         IN  IF outcome = "abort" THEN [loaded |-> <<>>, aborted |-> TRUE]
             ELSE IF outcome = "skip" THEN rest
             ELSE [rest EXCEPT !.loaded =
                     <<[from_state |-> StateByName(entry.from_state)[1],
                        to_state |-> StateByName(entry.to_state)[1],
                        reason |-> entry.reason,
                        timestamp |-> fromisoformat(entry.timestamp)]>> \o @]

_load_state(self) ==
    IF self.state_file = <<>> THEN self
    ELSE LET state_data == self.state_file[1]
             named == IF "state" \in DOMAIN state_data
                      THEN StateByName(state_data.state) ELSE <<>>
             history == IF "history" \in DOMAIN state_data
                        THEN LoadHistory(state_data.history)
                        ELSE [loaded |-> <<>>, aborted |-> FALSE]
             kept == IF "last_activity" \in DOMAIN state_data /\ ~history.aborted
                     THEN {k \in DOMAIN state_data.last_activity :
                              ValidIso(state_data.last_activity[k])}
                     ELSE {}
         IN  [self EXCEPT
                !.state = IF named = <<>> THEN @ ELSE named[1],
                !.state_history = @ \o history.loaded,
                !.last_activity = [k \in (DOMAIN @) \cup kept |->
                                     IF k \in kept
                                     THEN fromisoformat(state_data.last_activity[k])
                                     ELSE @[k]]]

\* Consciousness.__init__: a new object over the same log directory.
Construct(initial_state) ==
    _load_state([state |-> initial_state,
                 state_history |-> <<>>,
                 last_state_change |-> now,
                 last_activity |-> <<>>,
                 state_queue |-> <<>>,
                 invoked |-> invoked,
                 state_file |-> state_file])

-----------------------------------------------------------------------------
(* What one analysis reads: heartbeat.json, state.json and the logs.  Loads *)
(* and trends are in hundredths (cpu_load 1.5 is 150).  `bad` is input that *)
(* makes the analysis raise (unreadable JSON, a value int() or float()      *)
(* rejects): the except clause of the task logs it and the task ends.       *)

Reading(bad, cpu, cpu_trend, mem, mem_trend, disk, sys, why, services) ==
    [bad |-> bad, cpu_load |-> cpu, cpu_trend |-> cpu_trend,
     memory_free_mb |-> mem, mem_trend |-> mem_trend,
     disk_usage_root |-> disk, system_state |-> sys,
     state_reason |-> why, service_issues |-> services]

\* The defaults of metrics.get(...) when a file or a key is absent.
NoReading == Reading(FALSE, 0, 0, 9999, 0, 0, "normal", FALSE, <<>>)
BadReading == [NoReading EXCEPT !.bad = TRUE]

\* The readings offered to a tick at each level: a few readings on either
\* side of the thresholds that level's task tests; the fields a task never
\* reads keep their defaults.
Readings(level) ==
    IF level = DROWSY THEN
        {BadReading,
         Reading(FALSE, 100, 0, 9999, 0, 0, "normal", FALSE, <<>>),
         Reading(FALSE, 200, 0, 9999, 0, 0, "normal", FALSE, <<>>)}
    ELSE IF level = AWARE THEN
        {BadReading,
         Reading(FALSE, 50, 0, 9999, 0, 50, "normal", FALSE, <<>>),
         Reading(FALSE, 120, 0, 9999, 0, 50, "normal", FALSE, <<>>),
         Reading(FALSE, 50, 0, 9999, 0, 50, "critical", FALSE, <<>>),
         Reading(FALSE, 120, 0, 400, 0, 50, "normal", FALSE, <<>>),
         Reading(FALSE, 50, 0, 400, 0, 88, "suspicious", FALSE, <<>>),
         Reading(FALSE, 120, 0, 400, 0, 88, "alert", FALSE, <<>>)}
    ELSE IF level = ALERT THEN
        {BadReading,
         Reading(FALSE, 120, 0, 400, 0, 88, "normal", FALSE, <<>>),
         Reading(FALSE, 180, 0, 400, 0, 88, "normal", FALSE, <<>>),
         Reading(FALSE, 120, 0, 400, 0, 88, "critical", FALSE, <<>>),
         Reading(FALSE, 180, 60, 400, 0, 88, "normal", FALSE, <<>>),
         Reading(FALSE, 180, 60, 400, -150, 88, "normal", FALSE, <<>>),
         Reading(FALSE, 120, 0, 250, 0, 88, "normal", FALSE, <<>>),
         Reading(FALSE, 120, 0, 400, 0, 95, "normal", FALSE, <<>>)}
    ELSE IF level = FULLY_AWAKE THEN
        {BadReading,
         Reading(FALSE, 50, 0, 9999, 0, 50, "normal", FALSE, <<>>),
         Reading(FALSE, 120, 40, 400, -75, 88, "normal", FALSE, <<>>),
         Reading(FALSE, 250, 0, 150, 0, 95, "critical", TRUE,
                 <<<<"Failed", "services", "detected">>>>)}
    ELSE {NoReading}

\* An issue is its text, word by word.
When(cond, issue) == IF cond THEN <<issue>> ELSE <<>>

\* "Critical" in issue
FlaggedCritical(issue) == \E i \in DOMAIN issue : issue[i] = "Critical"

\* The issues list of the AWARE analysis (regular analysis).
AwareIssues(m) ==
    When(m.cpu_load > 100, <<"Elevated", "CPU", "load">>)
    \o When(m.memory_free_mb < 500, <<"Low", "free", "memory">>)
    \o When(m.disk_usage_root > 85, <<"High", "disk", "usage">>)
    \o When(m.system_state # "normal", <<"System", "state", "is", m.system_state>>)

\* The issues list of the ALERT analysis (enhanced analysis).
AlertIssues(m) ==
    When(m.cpu_load > 150, <<"High", "CPU", "load">>)
    \o When(m.cpu_trend > 50, <<"Rapidly", "increasing", "CPU", "trend">>)
    \o When(m.memory_free_mb < 300, <<"Critical", "free", "memory">>)
    \o When(m.mem_trend < -100, <<"Rapidly", "decreasing", "free", "memory">>)
    \o When(m.disk_usage_root > 90, <<"Critical", "disk", "usage">>)
    \o When(m.system_state # "normal", <<"System", "state", "is", m.system_state>>)

\* The issues list of the FULLY_AWAKE analysis (comprehensive analysis).
FullIssues(m) ==
    When(m.cpu_load > 100,
         <<IF m.cpu_load > 200 THEN "Critical" ELSE "High", "CPU", "load">>)
    \o When(m.cpu_trend > 30, <<"Increasing", "CPU", "trend">>)
    \o (IF m.memory_free_mb < 200 THEN <<<<"Critical", "free", "memory">>>>
        ELSE When(m.memory_free_mb < 500, <<"Low", "free", "memory">>))
    \o When(m.mem_trend < -50, <<"Declining", "free", "memory">>)
    \o When(m.disk_usage_root > 85,
            <<IF m.disk_usage_root > 90 THEN "Critical" ELSE "High",
              "disk", "usage">>)
    \o (IF m.system_state # "normal"
        THEN <<<<"System", "state", "is", m.system_state>>>>
             \o When(m.state_reason, <<"State", "reason">>)
        ELSE <<>>)
    \o m.service_issues

\* A cadence gate that opens at exactly the interval.
DueAtInterval(self, activity_type, cadence) ==
    \/ activity_type \notin DOMAIN self.last_activity
    \/ now - self.last_activity[activity_type] >= cadence

\* The cadence gate of a task: never run, or last run more than `cadence` ago.
Due(self, activity_type, cadence) ==
    \/ activity_type \notin DOMAIN self.last_activity
    \/ now - self.last_activity[activity_type] > cadence

\* The DROWSY branch of _run_state_tasks.  An elevated load calls
\* self._consider_wakeup, which the class does not define: the
\* AttributeError is caught by the except clause and nothing changes.
DrowsyTask(self, m) ==
    IF Due(self, "drowsy_analysis", DrowsyCadence)
    THEN log_activity(self, "drowsy_analysis")
    ELSE self

\* An AWARE escalation on a single issue.
AwareEscalatesOnOne(issues) == Len(issues) >= 1

\* The AWARE branch of _run_state_tasks.
AwareEscalates(issues) == Len(issues) >= 2

AwareTask(self, m) ==
    IF Due(self, "aware_analysis", AwareCadence)
    THEN LET logged == log_activity(self, "aware_analysis")
             issues == AwareIssues(m)
         IN  IF m.bad THEN logged
             ELSE IF issues # <<>> /\ AwareEscalates(issues) /\ logged.state < ALERT
             THEN change_state(logged, ALERT,
                               Reason("Multiple issues detected", issues)).self
             ELSE logged
    ELSE self

\* The ALERT branch of _run_state_tasks.  With no issue the branch calls
\* self.time_in_state, which the class does not define: the AttributeError
\* is caught by the except clause and nothing changes.
AlertEscalatesOnBoth(issues) ==
    Len(issues) >= 3 /\ \E i \in DOMAIN issues : FlaggedCritical(issues[i])

AlertEscalates(issues) ==
    Len(issues) >= 3 \/ \E i \in DOMAIN issues : FlaggedCritical(issues[i])

AlertTask(self, m) ==
    IF Due(self, "alert_analysis", AlertCadence)
    THEN LET logged == log_activity(self, "alert_analysis")
             issues == AlertIssues(m)
         IN  IF m.bad THEN logged
             ELSE IF issues # <<>>
             THEN IF AlertEscalates(issues) /\ logged.state < FULLY_AWAKE
                  THEN change_state(logged, FULLY_AWAKE,
                                    Reason("Critical issues detected", issues)).self
                  ELSE logged
             ELSE logged
    ELSE self

\* The FULLY_AWAKE branch of _run_state_tasks.  With issues the level is
\* kept; with none the branch calls self.time_in_state, which the class does
\* not define: the AttributeError is caught and nothing changes.
FullTask(self, m) ==
    IF Due(self, "full_analysis", FullCadence)
    THEN LET logged == log_activity(self, "full_analysis")
             issues == FullIssues(m)
         IN  IF m.bad THEN logged
             ELSE IF issues # <<>> THEN logged
             ELSE logged
    ELSE self

\* Consciousness._run_state_tasks
_run_state_tasks(self, m) ==
    IF self.state = DORMANT THEN self
    ELSE IF self.state = DROWSY THEN DrowsyTask(self, m)
    ELSE IF self.state = AWARE THEN AwareTask(self, m)
    ELSE IF self.state = ALERT THEN AlertTask(self, m)
    ELSE FullTask(self, m)

\* max(self.last_activity.values()) if self.last_activity else None
LastAction(self) ==
    IF DOMAIN self.last_activity = {} THEN None
    ELSE Some(CHOOSE t \in {self.last_activity[k] : k \in DOMAIN self.last_activity} :
                \A k \in DOMAIN self.last_activity : self.last_activity[k] <= t)

\* Time limits whose ALERT limit drops the level by two.
TimeLimitSkipping(self) ==
    LET time_since_change == now - self.last_state_change
        last_action == LastAction(self)
    IN  IF self.state = FULLY_AWAKE THEN
            IF /\ time_since_change > FullLimit
               /\ (last_action = None \/ now - last_action[1] > FullIdle)
            THEN change_state(self, ALERT,
                    Reason("Time limit reached for fully awake state", <<>>)).self
            ELSE self
        ELSE IF self.state = ALERT THEN
            IF time_since_change > AlertLimit
            THEN change_state(self, DROWSY,
                    Reason("Time limit reached for alert state", <<>>)).self
            ELSE self
        ELSE IF self.state = AWARE THEN
            IF time_since_change > AwareLimit
            THEN change_state(self, DROWSY,
                    Reason("Time limit reached for aware state", <<>>)).self
            ELSE self
        ELSE IF self.state = DROWSY THEN
            IF /\ "drowsy_analysis" \in DOMAIN self.last_activity
               /\ now - self.last_activity["drowsy_analysis"] > DrowsyLinger
            THEN change_state(self, DORMANT,
                    Reason("Analysis complete, returning to dormant state", <<>>)).self
            ELSE self
        ELSE self

\* The per-level time limits of _check_time_based_transitions.
TimeLimit(self) ==
    LET time_since_change == now - self.last_state_change
        last_action == LastAction(self)
    IN  IF self.state = FULLY_AWAKE THEN
            IF /\ time_since_change > FullLimit
               /\ (last_action = None \/ now - last_action[1] > FullIdle)
            THEN change_state(self, ALERT,
                    Reason("Time limit reached for fully awake state", <<>>)).self
            ELSE self
        ELSE IF self.state = ALERT THEN
            IF time_since_change > AlertLimit
            THEN change_state(self, AWARE,
                    Reason("Time limit reached for alert state", <<>>)).self
            ELSE self
        ELSE IF self.state = AWARE THEN
            IF time_since_change > AwareLimit
            THEN change_state(self, DROWSY,
                    Reason("Time limit reached for aware state", <<>>)).self
            ELSE self
        ELSE IF self.state = DROWSY THEN
            IF /\ "drowsy_analysis" \in DOMAIN self.last_activity
               /\ now - self.last_activity["drowsy_analysis"] > DrowsyLinger
            THEN change_state(self, DORMANT,
                    Reason("Analysis complete, returning to dormant state", <<>>)).self
            ELSE self
        ELSE self

\* A daily wake-up from every level.
WakeFromAnyLevel(self) == TRUE

\* The daily wake-up of _check_time_based_transitions.
WakeAllowed(self) == self.state < AWARE

DailyWake(self) ==
    LET last_aware == time_since_state_change(self, AWARE)
    IN  IF /\ (last_aware = None \/ last_aware[1] > MinutesPerDay)
           /\ HourOf(now) = WakeHour
           /\ WakeAllowed(self)
        THEN change_state(self, AWARE,
                Reason("Scheduled daily wake-up for system check", <<>>)).self
        ELSE self

\* A check that applies the daily wake-up and no time limit.
WakeOnly(self) == DailyWake(self)

\* Consciousness._check_time_based_transitions
_check_time_based_transitions(self) == DailyWake(TimeLimit(self))

\* The non-blocking get at the head of the loop body: one transition, if any.
Drain(self) ==
    IF self.state_queue = <<>> THEN self
    ELSE [self EXCEPT !.state_queue = Tail(@)]

\* One pass of the body of monitor_loop.
LoopBody(self, m) ==
    _check_time_based_transitions(_run_state_tasks(Drain(self), m))

-----------------------------------------------------------------------------
(* The state after Consciousness(initial_state=...) in an empty log dir.   *)

InitAt(t) ==
    /\ state \in ConsciousnessState
    /\ state_history = <<>>
    /\ last_state_change = t
    /\ last_activity = <<>>
    /\ state_queue = <<>>
    /\ event_handlers = [s \in ConsciousnessState |-> <<>>]
    /\ invoked = <<>>
    /\ state_file = <<>>
    /\ now = t
    /\ ret = [op |-> "init", arg |-> None, value |-> None]
    /\ active = FALSE
    /\ threads = <<>>
    /\ call = None

Init == InitAt(0)

\* The object's fields become those of self.
Becomes(self) ==
    /\ state' = self.state
    /\ state_history' = self.state_history
    /\ last_state_change' = self.last_state_change
    /\ last_activity' = self.last_activity
    /\ state_queue' = self.state_queue
    /\ invoked' = self.invoked
    /\ state_file' = self.state_file

\* The step starts, stops and advances no thread, and no call is under way.
Sequential == call = None /\ UNCHANGED <<active, threads, call>>

\* time.sleep, and the time that passes between calls.
Advance(d, limit) ==
    /\ now + d <= limit
    /\ now' = now + d
    /\ UNCHANGED <<state, state_history, last_state_change, last_activity,
                   state_queue, event_handlers, invoked, state_file, ret,
                   active, threads, call>>

\* A caller's change_state(target, reason).
ChangeState(target, limit) ==
    LET r == change_state(Self, target, Reason("Manual state change", <<>>))
    IN  /\ Len(r.self.state_history) <= limit
        /\ Becomes(r.self)
        /\ ret' = [op |-> "change_state", arg |-> None,
                   value |-> Some(r.result)]
        /\ UNCHANGED <<event_handlers, now>>
        /\ Sequential

\* A caller's log_activity(activity_type).
LogActivity(activity_type) ==
    /\ Becomes(log_activity(Self, activity_type))
    /\ ret' = [op |-> "log_activity", arg |-> None, value |-> None]
    /\ UNCHANGED <<event_handlers, now>>
    /\ Sequential

\* An advisory call that carries out the transition it is asked about.
ShouldTransitionMoving(target) ==
    LET r == change_state(Self, target, Reason("Manual state change", <<>>))
    IN  /\ Len(r.self.state_history) <= MaxHist
        /\ Becomes(r.self)
        /\ ret' = [op |-> "should_transition", arg |-> Some(target),
                   value |-> should_transition(Self, target)]
        /\ UNCHANGED <<event_handlers, now>>
        /\ Sequential

\* A caller's should_transition(target).
ShouldTransition(target) ==
    /\ ret' = [op |-> "should_transition", arg |-> Some(target),
               value |-> should_transition(Self, target)]
    /\ UNCHANGED <<state, state_history, last_state_change, last_activity,
                   state_queue, event_handlers, invoked, state_file, now>>
    /\ Sequential

\* Consciousness.register_handler
RegisterHandler(s, handler) ==
    /\ Len(event_handlers[s]) < MaxHandlers
    /\ event_handlers' = [event_handlers EXCEPT ![s] = Append(@, handler)]
    /\ ret' = [op |-> "register_handler", arg |-> None, value |-> None]
    /\ UNCHANGED <<state, state_history, last_state_change, last_activity,
                   state_queue, invoked, state_file, now>>
    /\ Sequential

\* One iteration of monitor_loop with the reading m.
Tick(m, limit) ==
    LET after == LoopBody(Self, m)
    IN  /\ Len(after.state_history) <= limit
        /\ Becomes(after)
        /\ ret' = [op |-> "tick", arg |-> None, value |-> None]
        /\ UNCHANGED <<event_handlers, now>>
        /\ Sequential

\* The state file is damaged from outside the process (an editor, a disk
\* fault, another writer): one item of the document is replaced.
BadIso == [day |-> 0, hour |-> 99, minute |-> 0]
JsonNull == [json |-> "null"]
JsonText == [json |-> "string"]

Without(record, key) == [k \in DOMAIN record \ {key} |-> record[k]]

DamagedEntry(entry, how) ==
    IF NotAString(entry) THEN entry
    ELSE IF how = "no_to_state" THEN Without(entry, "to_state")
    ELSE IF how = "bad_timestamp" THEN [entry EXCEPT !.timestamp = BadIso]
    ELSE IF how = "null_timestamp" THEN [entry EXCEPT !.timestamp = JsonNull]
    ELSE JsonText

DamageKinds == {"no_to_state", "bad_timestamp", "null_timestamp", "not_an_object"}

Written(doc) ==
    /\ state_file' = <<doc>>
    /\ ret' = [op |-> "damage", arg |-> None, value |-> None]
    /\ UNCHANGED <<state, state_history, last_state_change, last_activity,
                   state_queue, event_handlers, invoked, now>>
    /\ Sequential

DamageState ==
    /\ state_file # <<>>
    /\ Written([state_file[1] EXCEPT !.state = "BOGUS"])

DamageEntry(i, how) ==
    /\ state_file # <<>>
    /\ i \in DOMAIN state_file[1].history
    /\ Written([state_file[1] EXCEPT
                  !.history[i] = DamagedEntry(@, how)])

DamageActivity(k) ==
    /\ state_file # <<>>
    /\ k \in DOMAIN state_file[1].last_activity
    /\ Written([state_file[1] EXCEPT !.last_activity[k] = BadIso])

\* The process ends and a new Consciousness is constructed over the same
\* log directory: __init__ followed by _load_state.
Restart(initial_state) ==
    /\ Becomes(Construct(initial_state))
    /\ event_handlers' = [s \in ConsciousnessState |-> <<>>]
    /\ ret' = [op |-> "restart", arg |-> None, value |-> None]
    /\ active' = FALSE
    /\ threads' = <<>>
    /\ call' = None
    /\ UNCHANGED now

-----------------------------------------------------------------------------
(* start(), stop() and the monitor threads.  A thread is at "test" (it has *)
(* been started, or it sleeps, and the loop test comes next), in "tick"    *)
(* (inside the loop body) or "done" (it has left the loop).                *)

\* A loop test that never ends the loop.
LoopForever(flag) == TRUE

\* while self.active
LoopContinues(flag) == flag

\* Consciousness.start
Start ==
    /\ call = None
    /\ IF active
       THEN UNCHANGED <<active, threads>>
       ELSE /\ Len(threads) < MaxThreads
            /\ active' = TRUE
            /\ threads' = Append(threads, "test")
    /\ ret' = [op |-> "start", arg |-> None, value |-> None]
    /\ UNCHANGED <<state, state_history, last_state_change, last_activity,
                   state_queue, event_handlers, invoked, state_file, now, call>>

\* Consciousness.stop: the flag is cleared; join(timeout=5) waits for the
\* latest thread at most five seconds and stop returns either way.
Stop ==
    /\ call = None
    /\ active' = FALSE
    /\ ret' = [op |-> "stop", arg |-> None, value |-> None]
    /\ UNCHANGED <<state, state_history, last_state_change, last_activity,
                   state_queue, event_handlers, invoked, state_file, now,
                   threads, call>>

\* Thread t moves to position `at`.
Moved(t, at) ==
    /\ threads' = [threads EXCEPT ![t] = at]
    /\ UNCHANGED <<active, call, event_handlers, now, ret>>

\* Thread t finds the loop test true and enters the loop body.
BeginTick(t) ==
    /\ t \in DOMAIN threads
    /\ threads[t] = "test"
    /\ LoopContinues(active)
    /\ Moved(t, "tick")
    /\ UNCHANGED <<state, state_history, last_state_change, last_activity,
                   state_queue, invoked, state_file>>

\* Thread t completes the loop body with the reading m and goes to sleep.
EndTick(t, m) ==
    /\ t \in DOMAIN threads
    /\ threads[t] = "tick"
    /\ Becomes(LoopBody(Self, m))
    /\ Moved(t, "test")

\* Thread t finds the loop test false and returns from monitor_loop.
ExitLoop(t) ==
    /\ t \in DOMAIN threads
    /\ threads[t] = "test"
    /\ ~LoopContinues(active)
    /\ Moved(t, "done")
    /\ UNCHANGED <<state, state_history, last_state_change, last_activity,
                   state_queue, invoked, state_file>>

-----------------------------------------------------------------------------
(* A caller's change_state and log_activity statement by statement, as a   *)
(* reader on another thread finds them.  The class takes no lock, and      *)
(* _save_state opens the state file for writing, which empties it, before  *)
(* json.dump fills it.                                                     *)

\* The state file between open(..., 'w') and the end of json.dump.
Incomplete == [json |-> "incomplete"]

Changes(field) == UNCHANGED <<now, event_handlers, active, threads>> /\
    \A f \in {"state", "state_history", "last_state_change", "last_activity",
               "state_queue", "invoked", "state_file", "ret"} \ field :
        CASE f = "state" -> UNCHANGED state
          [] f = "state_history" -> UNCHANGED state_history
          [] f = "last_state_change" -> UNCHANGED last_state_change
          [] f = "last_activity" -> UNCHANGED last_activity
          [] f = "state_queue" -> UNCHANGED state_queue
          [] f = "invoked" -> UNCHANGED invoked
          [] f = "state_file" -> UNCHANGED state_file
          [] f = "ret" -> UNCHANGED ret

\* change_state(target, reason) is entered with a target other than the
\* current level and builds the transition.
ChangeStateBegin(target, limit) ==
    /\ call = None
    /\ target # state
    /\ Len(state_history) < limit
    /\ call' = Some([op |-> "change_state", at |-> "append",
                     transition |-> [from_state |-> state,
                                     to_state |-> target,
                                     reason |-> Reason("Manual state change", <<>>),
                                     timestamp |-> now]])
    /\ Changes({})

At(op, at) == call # None /\ call[1].op = op /\ call[1].at = at

Goto(at) == call' = Some([call[1] EXCEPT !.at = at])

\* The statements of change_state after the early return, one at a time.
ChangeStateStep ==
    \/ /\ At("change_state", "append")
       /\ state_history' = Append(state_history, call[1].transition)
       /\ Goto("set_state") /\ Changes({"state_history"})
    \/ /\ At("change_state", "set_state")
       /\ state' = call[1].transition.to_state
       /\ Goto("set_time") /\ Changes({"state"})
    \/ /\ At("change_state", "set_time")
       /\ last_state_change' = now
       /\ Goto("open") /\ Changes({"last_state_change"})
    \/ /\ At("change_state", "open")
       /\ state_file' = <<Incomplete>>
       /\ Goto("dump") /\ Changes({"state_file"})
    \/ /\ At("change_state", "dump")
       /\ state_file' = _save_state(Self).state_file
       /\ Goto("put") /\ Changes({"state_file"})
    \/ /\ At("change_state", "put")
       /\ state_queue' = Append(state_queue, call[1].transition)
       /\ Goto("trigger") /\ Changes({"state_queue"})
    \/ /\ At("change_state", "trigger")
       /\ invoked' = _trigger_handlers(Self, call[1].transition.from_state,
                                       call[1].transition.to_state,
                                       call[1].transition.reason).invoked
       /\ ret' = [op |-> "change_state", arg |-> None, value |-> Some(TRUE)]
       /\ call' = None
       /\ Changes({"invoked", "ret"})

\* log_activity(activity_type): the assignment.
LogActivityBegin(activity_type) ==
    /\ call = None
    /\ last_activity' = Put(last_activity, activity_type, now)
    /\ call' = Some([op |-> "log_activity", at |-> "open"])
    /\ Changes({"last_activity"})

\* log_activity: the statements of its _save_state.
LogActivityStep ==
    \/ /\ At("log_activity", "open")
       /\ state_file' = <<Incomplete>>
       /\ Goto("dump") /\ Changes({"state_file"})
    \/ /\ At("log_activity", "dump")
       /\ state_file' = _save_state(Self).state_file
       /\ ret' = [op |-> "log_activity", arg |-> None, value |-> None]
       /\ call' = None
       /\ Changes({"state_file", "ret"})

\* get_state_info on another thread: the recent history and the level.
GetStateInfo ==
    /\ ret' = [op |-> "get_state_info", arg |-> None,
               value |-> Some([current_state |-> Name(state),
                               recent_history |->
                                  [i \in DOMAIN LastN(state_history, 5) |->
                                      to_dict(LastN(state_history, 5)[i])]])]
    /\ UNCHANGED call /\ Changes({"ret"})

\* Another process reads the state file.
ReadStateFile ==
    /\ state_file # <<>>
    /\ ret' = [op |-> "read_state_file", arg |-> None, value |-> state_file]
    /\ UNCHANGED call /\ Changes({"ret"})

-----------------------------------------------------------------------------
(* Spec: the controller over two hours, ticks a half hour or an hour apart. *)

ShortSteps == {31, 61}

Next ==
    \/ \E d \in ShortSteps : Advance(d, MaxTime)
    \/ \E m \in Readings(state) : Tick(m, MaxHist)

Spec == Init /\ [][Next]_vars

(* SpecDay: the controller over a day and more, in steps of hours. *)

DaySteps == {181, 1441}

NextDay ==
    \/ \E d \in DaySteps : Advance(d, MaxDayTime)
    \/ \E m \in Readings(state) : Tick(m, MaxHist)

SpecDay == Init /\ [][NextDay]_vars

(* SpecAdvice: callers that change the level and ask should_transition,   *)
(* four hours apart.                                                       *)

AdviceSteps == {240, 241}

NextAdvice ==
    \/ \E d \in AdviceSteps : Advance(d, MaxAdviceTime)
    \/ \E target \in ConsciousnessState : ChangeState(target, MaxHist)
    \/ \E target \in ConsciousnessState : ShouldTransition(target)

SpecAdvice == Init /\ [][NextAdvice]_vars

(* SpecLong: a controller constructed with initial_state=AWARE (run.py,    *)
(* run_analysis_test) and a caller that moves it between its two lowest    *)
(* levels until the history is longer than the persisted document keeps.   *)

\* Day 1, 01:01.
LongStart == 1501

NextLong ==
    \/ \E target \in {DORMANT, DROWSY} : ChangeState(target, MaxLongHist)
    \/ LogActivity("user_activity")
    \/ Restart(DORMANT)

InitLong == InitAt(LongStart) /\ state = AWARE

SpecLong == InitLong /\ [][NextLong]_vars

(* SpecHandlers: callers that register handlers and change the level. *)

Handlers == {"h1", "h2"}
HandlerLevels == {DORMANT, ALERT}

NextHandlers ==
    \/ \E s \in HandlerLevels, h \in Handlers : RegisterHandler(s, h)
    \/ \E target \in ConsciousnessState : ChangeState(target, MaxHist)

SpecHandlers == Init /\ [][NextHandlers]_vars

(* SpecLoad: a controller constructed with initial_state=AWARE, a caller   *)
(* that changes the level and logs activity, a state file damaged from     *)
(* outside, and a new controller constructed over it.                      *)

LoadActivities == {"user_activity"}

NextLoad ==
    \/ \E target \in {DORMANT, DROWSY} : ChangeState(target, MaxLoadHist)
    \/ \E a \in LoadActivities : LogActivity(a)
    \/ DamageState
    \/ \E i \in 1..MaxLoadHist, how \in DamageKinds : DamageEntry(i, how)
    \/ \E a \in LoadActivities : DamageActivity(a)
    \/ Restart(DORMANT)

SpecLoad == InitLong /\ [][NextLoad]_vars

(* SpecReaders: a caller that changes the level and logs activity, and    *)
(* readers on other threads.                                               *)

NextReaders ==
    \/ \E target \in ConsciousnessState : ChangeStateBegin(target, MaxReadHist)
    \/ ChangeStateStep
    \/ LogActivityBegin("user_activity")
    \/ LogActivityStep
    \/ GetStateInfo
    \/ ReadStateFile

SpecReaders == Init /\ [][NextReaders]_vars

(* SpecThreads: callers of start() and stop() and the monitor threads they *)
(* create, at one moment of the clock.  While some thread can take a step, *)
(* some thread eventually takes one.                                       *)

\* The files the analyses read are healthy, or unreadable.
ThreadReadings == {NoReading, BadReading}

ThreadStep ==
    \/ \E t \in 1..MaxThreads : BeginTick(t)
    \/ \E t \in 1..MaxThreads : \E m \in ThreadReadings : EndTick(t, m)
    \/ \E t \in 1..MaxThreads : ExitLoop(t)

NextThreads ==
    \/ Start
    \/ Stop
    \/ ThreadStep

ThreadsRun == WF_vars(ThreadStep)

SpecThreads == Init /\ [][NextThreads]_vars /\ ThreadsRun

-----------------------------------------------------------------------------
(* The analyses of src/enhanced/memory.py and src/enhanced/prediction.py   *)
(* over one metric's history, the list get_metric_history returns, here    *)
(* the list of its values in time order.  Values are whole numbers and the *)
(* arithmetic is exact: a quotient is kept as numerator and denominator,   *)
(* a standard deviation as its square, and a comparison of two quotients   *)
(* is made on their cross products.                                        *)

Ratio(num, den) == [num |-> num, den |-> den]

RECURSIVE Sum(_)
Sum(seq) == IF seq = <<>> THEN 0 ELSE Head(seq) + Sum(Tail(seq))

Smallest(seq) == CHOOSE v \in {seq[i] : i \in DOMAIN seq} :
                    \A i \in DOMAIN seq : v <= seq[i]
Largest(seq) == CHOOSE v \in {seq[i] : i \in DOMAIN seq} :
                   \A i \in DOMAIN seq : seq[i] <= v

\* n * (x - mean) for each point, and n^3 * variance.
Deviations(data_points) ==
    [i \in DOMAIN data_points |->
        Len(data_points) * data_points[i] - Sum(data_points)]

SquaredDeviations(data_points) ==
    Sum([i \in DOMAIN data_points |->
            Deviations(data_points)[i] * Deviations(data_points)[i]])

\* sum(half) / len(half) if half else 0
Average(half) ==
    IF half = <<>> THEN Ratio(0, 1) ELSE Ratio(Sum(half), Len(half))

\* The trend direction: the second half's average against 1.1 and 0.9
\* times the first half's.
Direction(data_points) ==
    LET n == Len(data_points)
        first == Average(SubSeq(data_points, 1, n \div 2))
        second == Average(SubSeq(data_points, n \div 2 + 1, n))
    IN  IF 10 * second.num * first.den > 11 * first.num * second.den
        THEN "increasing"
        ELSE IF 10 * second.num * first.den < 9 * first.num * second.den
        THEN "decreasing"
        ELSE "stable"

\* The slope of the least-squares line over x = 0, 1, ..., n - 1.
Slope(data_points) ==
    LET n == Len(data_points)
        x == [i \in 1..n |-> i - 1]
        sum_x == Sum(x)
        sum_y == Sum(data_points)
        sum_xy == Sum([i \in 1..n |-> x[i] * data_points[i]])
        sum_xx == Sum([i \in 1..n |-> x[i] * x[i]])
    IN  IF n >= MinSlopePoints
        THEN Ratio(n * sum_xy - sum_x * sum_y, n * sum_xx - sum_x * sum_x)
        ELSE Ratio(0, 1)

\* A gate that takes one point for enough.
EnoughForTrendAtOne(data_points) == Len(data_points) >= 1

\* len(data_points) >= 2
EnoughForTrend(data_points) == Len(data_points) >= MinTrendPoints

\* DeusMemory.calculate_metric_trends
calculate_metric_trends(values) ==
    IF values = <<>>
    THEN [reason |-> "No data available", available |-> FALSE]
    ELSE IF EnoughForTrend(values)
    THEN [available |-> TRUE,
          count |-> Len(values),
          current |-> values[Len(values)],
          min |-> Smallest(values),
          max |-> Largest(values),
          mean |-> Ratio(Sum(values), Len(values)),
          std_dev_squared |-> Ratio(SquaredDeviations(values),
                                    Len(values) * Len(values) * Len(values)),
          trend |-> Direction(values),
          slope |-> Slope(values)]
    ELSE [available |-> TRUE,
          count |-> Len(values),
          current |-> values[Len(values)],
          trend |-> "insufficient_data"]

\* abs(z_score) > threshold for point i, where z_score is
\* (val - mean) / std_dev if std_dev > 0 else 0: on the squares when the
\* threshold is not negative, and always when it is.
Beyond(data_points, i, threshold) ==
    LET n == Len(data_points)
        d == Deviations(data_points)[i]
        v == SquaredDeviations(data_points)
    IN  IF threshold.num < 0 THEN TRUE
        ELSE IF v = 0 THEN FALSE
        ELSE n * d * d * threshold.den * threshold.den
                > threshold.num * threshold.num * v

RECURSIVE Anomalies(_, _, _)
Anomalies(data_points, i, threshold) ==
    IF i > Len(data_points) THEN <<>>
    ELSE (IF Beyond(data_points, i, threshold)
          THEN <<[value |-> data_points[i], index |-> i]>> ELSE <<>>)
         \o Anomalies(data_points, i + 1, threshold)

\* DeusMemory.detect_anomalies
detect_anomalies(values, threshold) ==
    IF Len(values) < MinAnomalyPoints
    THEN [reason |-> "Insufficient data points", anomalies_detected |-> FALSE]
    ELSE LET anomalies == Anomalies(values, 1, threshold)
         IN  [mean |-> Ratio(Sum(values), Len(values)),
              std_dev_squared |-> Ratio(SquaredDeviations(values),
                                        Len(values) * Len(values) * Len(values)),
              threshold |-> threshold,
              anomalies_detected |-> Len(anomalies) > 0,
              anomalies |-> anomalies,
              anomaly_count |-> Len(anomalies)]

\* PredictionEngine.forecast_metric: the test for enough history and the
\* fields of the result that are read off the history.
forecast_metric(history, hours_ahead) ==
    IF history = <<>> \/ Len(history) < MinForecastPoints
    THEN [success |-> FALSE,
          error |-> "Insufficient data",
          required_points |-> MinForecastPoints,
          available_points |-> Len(history)]
    ELSE [hours_ahead |-> hours_ahead,
          success |-> TRUE,
          current_value |-> history[Len(history)],
          data_points_used |-> Len(history)]

\* The histories and thresholds the analyses are given.
Samples == {0, 5, 7}

RECURSIVE Histories(_)
Histories(n) ==
    IF n = 0 THEN {<<>>}
    ELSE Histories(n - 1) \cup
         {Append(h, v) : h \in {g \in Histories(n - 1) : Len(g) = n - 1},
                         v \in Samples}

Repeated(v, n) == [i \in 1..n |-> v]

LongHistories == {Repeated(5, n) : n \in (MaxLongSeries - 2)..MaxLongSeries}

Thresholds == {Ratio(-1, 1), Ratio(0, 1), Ratio(1, 2), Ratio(2, 1)}

Returns(op, arg, value) ==
    /\ ret' = [op |-> op, arg |-> Some(arg), value |-> Some(value)]
    /\ UNCHANGED <<state, state_history, last_state_change, last_activity,
                   state_queue, event_handlers, invoked, state_file, now>>
    /\ Sequential

CalculateMetricTrends(values) ==
    Returns("calculate_metric_trends", [values |-> values],
            calculate_metric_trends(values))

DetectAnomalies(values, threshold) ==
    Returns("detect_anomalies", [values |-> values, threshold |-> threshold],
            detect_anomalies(values, threshold))

ForecastMetric(history, hours_ahead) ==
    Returns("forecast_metric", [values |-> history, hours_ahead |-> hours_ahead],
            forecast_metric(history, hours_ahead))

-----------------------------------------------------------------------------
(* The forecasting models of src/enhanced/prediction.py, in exact          *)
(* arithmetic on quotients kept in lowest terms.                           *)

Abs(v) == IF v < 0 THEN -v ELSE v

RECURSIVE GCD(_, _)
GCD(a, b) == IF b = 0 THEN a ELSE GCD(b, a % b)

Reduce(r) ==
    LET g == GCD(Abs(r.num), Abs(r.den))
        sign == IF r.den < 0 THEN -1 ELSE 1
    IN  Ratio(sign * (Abs(r.num) \div g) * (IF r.num < 0 THEN -1 ELSE 1),
              Abs(r.den) \div g)

Whole(v) == Ratio(v, 1)
Plus(a, b) ==
    LET g == GCD(a.den, b.den)
    IN  Reduce(Ratio(a.num * (b.den \div g) + b.num * (a.den \div g),
                     (a.den \div g) * b.den))
Times(a, b) ==
    LET p == Reduce(Ratio(a.num, b.den))
        q == Reduce(Ratio(b.num, a.den))
    IN  Ratio(p.num * q.num, p.den * q.den)
Over(a, b) == Times(a, Reduce(Ratio(b.den, b.num)))
Below(a, b) == a.num * b.den < b.num * a.den
Larger(a, b) == IF Below(b, a) THEN a ELSE b

\* The point of the forecast taken as hours_ahead alone.
forecast_x_from_zero(x, hours_ahead) == hours_ahead

\* x[-1] + hours_ahead
forecast_x(x, hours_ahead) == x[Len(x)] + hours_ahead

\* PredictionEngine._linear_forecast: forecast_y, slope, intercept.
_linear_forecast(x, y, hours_ahead) ==
    IF x = <<>> \/ y = <<>> \/ Len(x) < 2 \/ Len(y) < 2
    THEN [slope |-> Whole(0),
          forecast_y |-> Whole(IF y = <<>> THEN 0 ELSE y[Len(y)]),
          intercept |-> Whole(IF y = <<>> THEN 0 ELSE y[Len(y)])]
    ELSE LET n == Len(x)
             sum_x == Sum(x)
             sum_y == Sum(y)
             sum_xy == Sum([i \in 1..n |-> x[i] * y[i]])
             sum_xx == Sum([i \in 1..n |-> x[i] * x[i]])
             ZeroDivision == n * sum_xx - sum_x * sum_x = 0
             slope == IF ZeroDivision THEN Whole(0)
                      ELSE Reduce(Ratio(n * sum_xy - sum_x * sum_y,
                                        n * sum_xx - sum_x * sum_x))
             intercept ==
                 IF ZeroDivision THEN Reduce(Ratio(sum_y, n))
                 ELSE Over(Plus(Whole(sum_y), Times(Whole(-sum_x), slope)),
                           Whole(n))
         IN  [slope |-> slope,
              forecast_y |->
                  Plus(Times(slope, Whole(forecast_x(x, hours_ahead))),
                       intercept),
              intercept |-> intercept]

ModelNames == {"linear", "seasonal", "exponential"}

\* weights = {"linear": 0.4, "seasonal": 0.4, "exponential": 0.2}
DefaultWeights ==
    [k \in ModelNames |-> IF k = "exponential" THEN Ratio(1, 5) ELSE Ratio(2, 5)]

Total(of) == Plus(Plus(of["linear"], of["seasonal"]), of["exponential"])

\* weights[k] = max(0.1, weights[k])
Floor(weight) == Larger(Ratio(1, 10), weight)

\* The weights from the validation errors: inversely proportional to the
\* mean squared errors, floored, and normalised again.
optimized_weights(val_errors, val_size) ==
    LET mse == [k \in ModelNames |->
                   IF val_errors[k] = 0 THEN Whole(ZeroError)
                   ELSE Reduce(Ratio(val_errors[k], val_size))]
        inv_mse == [k \in ModelNames |-> Over(Whole(1), mse[k])]
        weights == [k \in ModelNames |-> Over(inv_mse[k], Total(inv_mse))]
        floored == [k \in ModelNames |-> Floor(weights[k])]
    IN  [k \in ModelNames |-> Over(floored[k], Total(floored))]

\* PredictionEngine._ensemble_forecast over len(y) points, with the sums of
\* squared validation errors its validation loop arrives at: the ensemble
\* prediction and the weights.
_ensemble_forecast(points, val_errors, linear_pred, seasonal_pred, exp_pred) ==
    LET val_size == (points * 2) \div 10
        weights == IF points >= MinEnsemblePoints /\ val_size >= MinValidation
                   THEN optimized_weights(val_errors, val_size)
                   ELSE DefaultWeights
    IN  [weights |-> weights,
         ensemble |->
             Plus(Plus(Times(weights["linear"], Whole(linear_pred)),
                       Times(weights["seasonal"], Whole(seasonal_pred))),
                  Times(weights["exponential"], Whole(exp_pred)))]

\* The series, horizons and validation errors the models are given.
Hourly(n) == [i \in 1..n |-> i - 1]
Uneven(n) == [i \in 1..n |-> (i - 1) * (i - 1)]
OnLine(x, a, b) == [i \in DOMAIN x |-> a + b * x[i]]
Bent(x, a, b) == [i \in DOMAIN x |-> IF i = Len(x) THEN a ELSE a + b * x[i]]

Hours == {Hourly(n) : n \in 1..MaxFit} \cup {Uneven(n) : n \in 3..MaxFit}
            \cup {Hourly(MaxLongSeries)}
Intercepts == {0, 10}
Slopes == {-2, 0, 1}
Horizons == {0, 1, 24}
Errors == {0, 1, 7, MaxError}
Lengths == {MinEnsemblePoints - 1, MinEnsemblePoints}
Predictions == {0, 58}

LinearForecast(x, y, hours_ahead) ==
    Returns("_linear_forecast", [x |-> x, hours_ahead |-> hours_ahead, y |-> y],
            _linear_forecast(x, y, hours_ahead))

EnsembleForecast(points, val_errors, linear_pred, seasonal_pred, exp_pred) ==
    Returns("_ensemble_forecast",
            [val_errors |-> val_errors, points |-> points],
            _ensemble_forecast(points, val_errors,
                               linear_pred, seasonal_pred, exp_pred))

(* SpecForecast: callers of the linear model and of the ensemble. *)

NextForecast ==
    \/ \E x \in Hours, a \in Intercepts, b \in Slopes, h \in Horizons :
          \/ LinearForecast(x, OnLine(x, a, b), h)
          \/ LinearForecast(x, Bent(x, a, b), h)
    \/ \E points \in Lengths, val_errors \in [ModelNames -> Errors],
          linear_pred \in Predictions, exp_pred \in Predictions :
          EnsembleForecast(points, val_errors,
                           linear_pred, linear_pred, exp_pred)

SpecForecast == Init /\ [][NextForecast]_vars

-----------------------------------------------------------------------------
(* PredictionEngine.generate_schedule.  A forecast of cpu_load is counted  *)
(* in hundredths, one of memory_free_mb in tens of megabytes and one of    *)
(* disk_usage_root in percent, so that the scores are whole numbers; a     *)
(* metric whose prediction has no forecast_value is None.  The present is  *)
(* a weekday (Monday = 0) and an hour of the day.                          *)

Min(a, b) == IF a < b THEN a ELSE b

Activities == <<"log_rotation", "memory_cleanup", "security_scan",
                "system_backup">>

ActivityMetric(activity_name) ==
    CASE activity_name = "log_rotation" -> "disk_usage_root"
      [] activity_name = "memory_cleanup" -> "memory_free_mb"
      [] activity_name = "security_scan" -> "cpu_load"
      [] activity_name = "system_backup" -> "combined"

\* if hour < 7 or hour >= 19: ... elif timestamp.weekday() >= 5: ...
Bonus(hour, weekday) ==
    IF hour < MorningHour \/ hour >= EveningHour THEN NightBonus
    ELSE IF weekday >= Saturday THEN WeekendBonus
    ELSE 0

\* The score of a slot from the forecasts present.
Score(forecasts, hour, weekday) ==
    (IF forecasts.cpu_load # None
     THEN ScoreCap - Min(ScoreCap, forecasts.cpu_load[1]) ELSE 0)
    + (IF forecasts.memory_free_mb # None
       THEN Min(ScoreCap, forecasts.memory_free_mb[1]) ELSE 0)
    + (IF forecasts.disk_usage_root # None
       THEN ScoreCap - Min(ScoreCap, forecasts.disk_usage_root[1]) ELSE 0)
    + Bonus(hour, weekday)

\* The slot at now + timedelta(days=day, hours=hour).
TimeSlot(present, forecasts, day, hour) ==
    LET hours == present.hour + day * HoursPerDay + hour
        weekday == (present.weekday + hours \div HoursPerDay) % DaysPerWeek
    IN  [day |-> weekday,
         hour |-> hour,
         timestamp |-> day * HoursPerDay + hour,
         hour_of_day |-> hours % HoursPerDay,
         score |-> Score(forecasts, hour, weekday),
         activities |-> <<>>]

\* The slots in the order the two loops append them.
TimeSlots(present, forecasts) ==
    [i \in 1..(ScheduleDays * HoursPerDay) |->
        TimeSlot(present, forecasts,
                 (i - 1) \div HoursPerDay, (i - 1) % HoursPerDay)]

\* A sort with the lowest score first.
RECURSIVE LowestFirst(_, _)
LowestFirst(schedule, scores) ==
    IF scores = {} THEN <<>>
    ELSE LET low == CHOOSE v \in scores : \A w \in scores : v <= w
         IN  SelectSeq(schedule, LAMBDA slot : slot.score = low)
                \o LowestFirst(schedule, scores \ {low})

\* schedule.sort(key=score, reverse=True): the highest score first, slots
\* of equal score in the order they had.
RECURSIVE HighestFirst(_, _)
HighestFirst(schedule, scores) ==
    IF scores = {} THEN <<>>
    ELSE LET top == CHOOSE v \in scores : \A w \in scores : w <= v
         IN  SelectSeq(schedule, LAMBDA slot : slot.score = top)
                \o HighestFirst(schedule, scores \ {top})

\* The test an activity puts to a slot.
Meets(forecasts, metric, slot) ==
    IF metric = "combined" THEN slot.score > CombinedScore
    ELSE /\ forecasts[metric] # None
         /\ CASE metric = "cpu_load" -> forecasts[metric][1] < CpuCeiling
              [] metric = "memory_free_mb" ->
                    forecasts[metric][1] < MemoryCeiling
              [] metric = "disk_usage_root" -> forecasts[metric][1] > DiskFloor

\* The slots an activity may take: free ones that meet its test.
Open(forecasts, schedule, activity_name) ==
    {i \in DOMAIN schedule :
        /\ schedule[i].activities = <<>>
        /\ Meets(forecasts, ActivityMetric(activity_name), schedule[i])}

\* An assignment loop that ends at the first activity left without a slot.
RECURSIVE AssignUntilNone(_, _, _)
AssignUntilNone(forecasts, schedule, k) ==
    IF k > Len(Activities) THEN schedule
    ELSE LET open == Open(forecasts, schedule, Activities[k])
         IN  IF open = {} THEN schedule
             ELSE LET first == CHOOSE i \in open : \A j \in open : i <= j
                  IN  AssignUntilNone(forecasts,
                          [schedule EXCEPT ![first].activities =
                                               <<Activities[k]>>],
                          k + 1)

\* for activity_name, activity_info in activities.items(): the first open
\* slot of the sorted schedule takes the activity.
RECURSIVE Assign(_, _, _)
Assign(forecasts, schedule, k) ==
    IF k > Len(Activities) THEN schedule
    ELSE LET open == Open(forecasts, schedule, Activities[k])
         IN  IF open = {} THEN Assign(forecasts, schedule, k + 1)
             ELSE LET first == CHOOSE i \in open : \A j \in open : i <= j
                  IN  Assign(forecasts,
                          [schedule EXCEPT ![first].activities =
                                               <<Activities[k]>>],
                          k + 1)

\* PredictionEngine.generate_schedule: the result, and with it the slots
\* as they stand when it returns.
generate_schedule(present, forecasts) ==
    LET slots == TimeSlots(present, forecasts)
        sorted == HighestFirst(slots, {slots[i].score : i \in DOMAIN slots})
        assigned == Assign(forecasts, sorted, 1)
        active_schedule == SelectSeq(assigned, LAMBDA slot : slot.activities # <<>>)
    IN  [success |-> TRUE,
         schedule |-> active_schedule,
         scheduled_count |-> Len(active_schedule),
         time_slots |-> assigned]

\* The forecasts and the moments generate_schedule is called with.
CpuForecasts == {None, Some(-50), Some(20), Some(80)}
MemoryForecasts == {None, Some(-20), Some(30), Some(200)}
DiskForecasts == {None, Some(-10), Some(60), Some(90)}
Presents == {[hour |-> 0, weekday |-> 0], [hour |-> 9, weekday |-> 4],
             [hour |-> 20, weekday |-> 5]}

GenerateSchedule(present, forecasts) ==
    Returns("generate_schedule", [forecasts |-> forecasts, present |-> present],
            generate_schedule(present, forecasts))

(* SpecSchedule: callers of generate_schedule. *)

NextSchedule ==
    \E present \in Presents, cpu \in CpuForecasts, memory \in MemoryForecasts,
       disk \in DiskForecasts :
        GenerateSchedule(present, [cpu_load |-> cpu, memory_free_mb |-> memory,
                                   disk_usage_root |-> disk])

InitSchedule == Init /\ state = DORMANT

SpecSchedule == InitSchedule /\ [][NextSchedule]_vars

(* SpecAnalyses: callers of the three analyses. *)

NextAnalyses ==
    \/ \E values \in Histories(MaxSeries) : CalculateMetricTrends(values)
    \/ \E values \in Histories(MaxSeries), threshold \in Thresholds :
          DetectAnomalies(values, threshold)
    \/ \E history \in Histories(MaxSeries) \cup LongHistories :
          ForecastMetric(history, 24)

SpecAnalyses == Init /\ [][NextAnalyses]_vars

-----------------------------------------------------------------------------
(* SpecChain: callers of change_state, handlers that call change_state   *)
(* from inside it, the monitor loop and restarts, over four hours.        *)

ChainSteps == {241}
QuietReadings == {NoReading}
ChainTargets == {DROWSY, ALERT}
ChainHandlers == {<<ALERT, "to_aware">>, <<AWARE, "to_dormant">>}

NextChain ==
    \/ \E d \in ChainSteps : Advance(d, MaxChainTime)
    \/ \E r \in ChainHandlers : RegisterHandler(r[1], r[2])
    \/ \E target \in ChainTargets : ChangeState(target, MaxChainHist)
    \/ \E m \in QuietReadings : Tick(m, MaxChainHist)
    \/ Restart(DORMANT)

SpecChain == Init /\ [][NextChain]_vars

-----------------------------------------------------------------------------
(* SpecDecay: the monitor loop alone, a loop body and a sleep of          *)
(* check_interval in turn, over readings in which no analysis finds an    *)
(* issue.                                                                 *)

CheckIntervals == {15}

\* time.sleep(check_interval) at the end of an iteration.
Sleep(d, limit) ==
    /\ ret.op # "sleep"
    /\ now + d <= limit
    /\ now' = now + d
    /\ ret' = [op |-> "sleep", arg |-> Some(d), value |-> None]
    /\ UNCHANGED <<state, state_history, last_state_change, last_activity,
                   state_queue, event_handlers, invoked, state_file>>
    /\ Sequential

LoopSleeps == \E d \in CheckIntervals : Sleep(d, MaxDecayTime)
LoopTicks == \E m \in QuietReadings : Tick(m, MaxHist)

NextDecay == LoopSleeps \/ LoopTicks

LoopRuns == WF_vars(LoopSleeps) /\ WF_vars(LoopTicks)

SpecDecay == Init /\ [][NextDecay]_vars /\ LoopRuns

-----------------------------------------------------------------------------
(* SpecQueries: callers of change_state and log_activity over eight       *)
(* hours, with callers of should_transition and get_state_info.           *)

NextQueries ==
    \/ \E d \in AdviceSteps : Advance(d, MaxAdviceTime)
    \/ \E target \in ConsciousnessState : ChangeState(target, MaxQueryHist)
    \/ LogActivity("user_activity")
    \/ \E target \in ConsciousnessState : ShouldTransition(target)
    \/ GetStateInfo

SpecQueries == Init /\ [][NextQueries]_vars

-----------------------------------------------------------------------------
(* SpecVisits: the monitor loop over an hour, in steps just over the     *)
(* DROWSY linger, with a caller that moves the controller between         *)
(* DORMANT and DROWSY.                                                    *)

VisitSteps == {16}
VisitTargets == {DORMANT, DROWSY}

NextVisits ==
    \/ \E d \in VisitSteps : Advance(d, MaxVisitTime)
    \/ \E target \in VisitTargets : ChangeState(target, MaxVisitHist)
    \/ \E m \in Readings(state) : Tick(m, MaxVisitHist)

SpecVisits == Init /\ [][NextVisits]_vars

-----------------------------------------------------------------------------
(* SpecCadence: the monitor loop over an hour, ticks a quarter of an hour  *)
(* or more apart, and callers that raise the level between ticks.          *)

CadenceSteps == {15, 46}
CadenceTargets == {ALERT, FULLY_AWAKE}

NextCadence ==
    \/ \E d \in CadenceSteps : Advance(d, MaxCadenceTime)
    \/ \E target \in CadenceTargets : ChangeState(target, MaxCadenceHist)
    \/ \E m \in Readings(state) : Tick(m, MaxCadenceHist)

SpecCadence == Init /\ [][NextCadence]_vars

-----------------------------------------------------------------------------
(* Properties. *)

Last(seq) == seq[Len(seq)]

\* The transitions a step appends to the history.
Appended(i) ==
    /\ Len(state_history') >= Len(state_history) + i
    /\ SubSeq(state_history', 1, Len(state_history)) = state_history

NewEntry(i) == state_history'[Len(state_history) + i]

\* The step appends, as its i-th new transition, one from a to b with the
\* reason text given, stamped with the current time.
Moves(i, a, b, text) ==
    /\ Appended(i)
    /\ NewEntry(i).from_state = a
    /\ NewEntry(i).to_state = b
    /\ NewEntry(i).reason.text = text
    /\ NewEntry(i).timestamp = now

\* The level after the state tasks of a tick with reading m.
LevelAfterTasks(m) == _run_state_tasks(Drain(Self), m).state

(* C1: change_state(target, reason) with target equal to the current level *)
(* returns false and leaves the level, the history, the last-change        *)
(* timestamp, the persisted document and the queue unchanged, and invokes  *)
(* no handler.                                                             *)
C1_SameLevelIsNoOp ==
    [][ChangeState(state, MaxHist) =>
          /\ ret'.value = Some(FALSE)
          /\ UNCHANGED <<state, state_history, last_state_change,
                         last_activity, state_file, state_queue, invoked>>]_vars

\* A no-op call made with a handler registered for the current level and a
\* document already persisted.
C1_Witness ==
    /\ ret.op = "change_state"
    /\ ret.value = Some(FALSE)
    /\ event_handlers[state] # <<>>
    /\ state_history # <<>>
    /\ state_file # <<>>

(* C2: the controller's transition history holds at most 50 entries after  *)
(* any number of successful change_state calls and loads.                  *)
C2_HistoryCapped == Len(state_history) <= HistoryKeep

(* C3: constructing a new controller from the persisted document           *)
(* reproduces the current level, every activity timestamp and the most     *)
(* recent 50 transitions in order.                                         *)
C3_RoundTrip ==
    [][(ret'.op = "restart" /\ state_file # <<>>) =>
          /\ state' = state
          /\ last_activity' = last_activity
          /\ state_history' = LastN(state_history, HistoryKeep)]_vars

\* A controller reloaded from a document that had dropped the oldest
\* transition (the first one ever made left AWARE), with an activity
\* recorded and a level other than the constructor's default.
C3_Witness ==
    /\ ret.op = "restart"
    /\ Len(state_history) = HistoryKeep
    /\ state_history[1].from_state # AWARE
    /\ state_history[1].timestamp = LongStart
    /\ "user_activity" \in DOMAIN last_activity
    /\ last_activity["user_activity"] = LongStart
    /\ state = DROWSY

(* C4: FULLY_AWAKE entered at T and no activity recorded after T: a tick   *)
(* at T+61min moves the controller to ALERT with the time-limit reason.    *)
C4_FullyAwakeTimeLimit ==
    [][\A m \in Readings(state) :
          (/\ Tick(m, MaxHist)
           /\ state = FULLY_AWAKE
           /\ now = last_state_change + 61
           /\ \A k \in DOMAIN last_activity : last_activity[k] <= last_state_change)
          => /\ state' = ALERT
             /\ Moves(1, FULLY_AWAKE, ALERT,
                      "Time limit reached for fully awake state")]_vars

(* C5: a tick forces ALERT to AWARE once more than 4h have passed since    *)
(* ALERT was entered and AWARE to DROWSY once more than 8h have passed     *)
(* since AWARE was entered, whatever the analysis task did in that tick.   *)
C5_ForcedWhateverTheTask ==
    [][\A m \in Readings(state) :
          Tick(m, MaxHist) =>
            /\ (state = ALERT /\ now - last_state_change > AlertLimit)
                  => \E i \in 1..2 : Moves(i, ALERT, AWARE,
                                           "Time limit reached for alert state")
            /\ (state = AWARE /\ now - last_state_change > AwareLimit)
                  => \E i \in 1..2 : Moves(i, AWARE, DROWSY,
                                           "Time limit reached for aware state")]_vars

(* C5 as amended: the same, unless the level's analysis task escalated the *)
(* level earlier in that tick; then the tick ends at the escalated level.  *)
C5_ForcedUnlessEscalated ==
    [][\A m \in Readings(state) :
          Tick(m, MaxHist) =>
            /\ (state = ALERT /\ now - last_state_change > AlertLimit)
                  => IF LevelAfterTasks(m) = ALERT
                     THEN Moves(1, ALERT, AWARE,
                                "Time limit reached for alert state")
                     ELSE state' = FULLY_AWAKE /\ LevelAfterTasks(m) = FULLY_AWAKE
            /\ (state = AWARE /\ now - last_state_change > AwareLimit)
                  => IF LevelAfterTasks(m) = AWARE
                     THEN Moves(1, AWARE, DROWSY,
                                "Time limit reached for aware state")
                     ELSE state' = ALERT /\ LevelAfterTasks(m) = ALERT]_vars

\* ALERT timed out into AWARE in a tick whose alert analysis also ran, and
\* AWARE later timed out into DROWSY.
C5_Witness ==
    \E i, j \in DOMAIN state_history :
        /\ i < j
        /\ state_history[i].from_state = ALERT
        /\ state_history[i].to_state = AWARE
        /\ state_history[i].reason.text = "Time limit reached for alert state"
        /\ "alert_analysis" \in DOMAIN last_activity
        /\ last_activity["alert_analysis"] = state_history[i].timestamp
        /\ state_history[j].from_state = AWARE
        /\ state_history[j].to_state = DROWSY
        /\ state_history[j].reason.text = "Time limit reached for aware state"

\* No transition into AWARE in the last 24 hours.
NoRecentAware ==
    LET last_aware == time_since_state_change(Self, AWARE)
    IN  last_aware = None \/ last_aware[1] > MinutesPerDay

WakeText == "Scheduled daily wake-up for system check"

SinceDrowsy == time_since_state_change(Self, DROWSY)

(* C7: while DORMANT, should_transition(DROWSY) returns a reason iff the   *)
(* history holds no transition into DROWSY or at least 8h have elapsed     *)
(* since the most recent one; right after a transition into DROWSY: none.  *)
C7_AtLeastEightHours ==
    [][(ShouldTransition(DROWSY) /\ state = DORMANT) =>
          (ret'.value # None <=>
              (SinceDrowsy = None \/ SinceDrowsy[1] >= DrowsyInterval))]_vars

(* C7 as amended: ... or more than 8h have elapsed since the most recent   *)
(* one; right after a transition into DROWSY it returns none.              *)
C7_MoreThanEightHours ==
    [][ShouldTransition(DROWSY) =>
          /\ state = DORMANT =>
                (ret'.value # None <=>
                    (SinceDrowsy = None \/ SinceDrowsy[1] > DrowsyInterval))
          /\ (state \in {DORMANT, DROWSY} /\ SinceDrowsy = Some(0))
                => ret'.value = None]_vars

\* should_transition(DROWSY) answered none, DORMANT, exactly 8h after the
\* last transition into DROWSY.
C7_Witness ==
    /\ ret.op = "should_transition"
    /\ ret.arg = Some(DROWSY)
    /\ ret.value = None
    /\ state = DORMANT
    /\ SinceDrowsy = Some(DrowsyInterval)

(* C8: in FULLY_AWAKE an analysis run that finds an issue keeps the level, *)
(* and one that finds none after at least 30 minutes in FULLY_AWAKE moves  *)
(* the controller to ALERT.                                                *)
C8_FullyAwakeAnalysis ==
    [][\A m \in Readings(state) :
          (/\ Tick(m, MaxHist)
           /\ state = FULLY_AWAKE
           /\ Due(Self, "full_analysis", FullCadence)
           /\ ~m.bad)
          => /\ FullIssues(m) # <<>> => state' = FULLY_AWAKE
             /\ (FullIssues(m) = <<>> /\ now - last_state_change >= CalmPeriod)
                   => state' = ALERT]_vars

(* C9: in AWARE a run of the moderate analysis moves the controller to     *)
(* ALERT iff the run found at least 2 issues; with 0 or 1 issue the task   *)
(* leaves the level unchanged.                                             *)
C9_AwareEscalation ==
    [][\A m \in Readings(state) :
          (/\ Tick(m, MaxHist)
           /\ state = AWARE
           /\ Due(Self, "aware_analysis", AwareCadence)
           /\ ~m.bad)
          => /\ Len(AwareIssues(m)) >= 2
                  => /\ Moves(1, AWARE, ALERT, "Multiple issues detected")
                     /\ NewEntry(1).reason.issues = AwareIssues(m)
                     /\ LevelAfterTasks(m) = ALERT
             /\ Len(AwareIssues(m)) < 2
                  => /\ LevelAfterTasks(m) = AWARE
                     /\ \A i \in 1..3 : Appended(i) =>
                           NewEntry(i).to_state # ALERT]_vars

\* An escalation to ALERT on exactly two issues.
C9_Witness ==
    /\ state = ALERT
    /\ state_history # <<>>
    /\ Last(state_history).from_state = AWARE
    /\ Last(state_history).reason.text = "Multiple issues detected"
    /\ Len(Last(state_history).reason.issues) = 2
    /\ last_activity["aware_analysis"] = Last(state_history).timestamp

(* C10: in ALERT a run of the trend-aware analysis moves the controller to *)
(* FULLY_AWAKE iff the run found at least 3 issues or at least one issue   *)
(* flagged critical.                                                       *)
C10_AlertEscalation ==
    [][\A m \in Readings(state) :
          (/\ Tick(m, MaxHist)
           /\ state = ALERT
           /\ Due(Self, "alert_analysis", AlertCadence)
           /\ ~m.bad)
          => LET issues == AlertIssues(m)
                 serious == \/ Len(issues) >= 3
                            \/ \E i \in DOMAIN issues : FlaggedCritical(issues[i])
             IN  /\ serious
                      => /\ Moves(1, ALERT, FULLY_AWAKE, "Critical issues detected")
                         /\ NewEntry(1).reason.issues = issues
                         /\ state' = FULLY_AWAKE
                 /\ ~serious
                      => /\ LevelAfterTasks(m) = ALERT
                         /\ state' # FULLY_AWAKE]_vars

\* An escalation to FULLY_AWAKE on a single issue, flagged critical.
C10_Witness ==
    /\ state = FULLY_AWAKE
    /\ state_history # <<>>
    /\ Last(state_history).from_state = ALERT
    /\ Last(state_history).reason.text = "Critical issues detected"
    /\ Len(Last(state_history).reason.issues) = 1
    /\ FlaggedCritical(Last(state_history).reason.issues[1])

\* The activity type of each level's analysis task and its interval.
TaskTypes ==
    {"drowsy_analysis", "aware_analysis", "alert_analysis", "full_analysis"}

TaskLevel(k) ==
    CASE k = "drowsy_analysis" -> DROWSY
      [] k = "aware_analysis" -> AWARE
      [] k = "alert_analysis" -> ALERT
      [] k = "full_analysis" -> FULLY_AWAKE

TaskInterval(k) ==
    CASE k = "drowsy_analysis" -> DrowsyCadence
      [] k = "aware_analysis" -> AwareCadence
      [] k = "alert_analysis" -> AlertCadence
      [] k = "full_analysis" -> FullCadence

\* The step records activity type k: a first timestamp, or a new one.
Records(k) ==
    /\ k \in DOMAIN last_activity'
    /\ k \notin DOMAIN last_activity \/ last_activity'[k] # last_activity[k]

NewCalls == SubSeq(invoked', Len(invoked) + 1, Len(invoked'))

(* C12: a successful change_state(target, reason) invokes every handler    *)
(* registered for target exactly once, in registration order, with the new *)
(* level current and persisted at each call; it invokes no handler of      *)
(* another level, and a handler that raises neither undoes the transition  *)
(* nor keeps the handlers after it from running.                           *)
C12_HandlersInvoked ==
    [][\A target \in ConsciousnessState :
          (ChangeState(target, MaxHist) /\ target # state) =>
            /\ ret'.value = Some(TRUE)
            /\ state' = target
            /\ state_file' # <<>> /\ state_file'[1].state = Name(target)
            /\ Last(state_history').to_state = target
            /\ SubSeq(invoked', 1, Len(invoked)) = invoked
            /\ Len(NewCalls) = Len(event_handlers[target])
            /\ \A i \in DOMAIN NewCalls :
                  /\ NewCalls[i].handler = event_handlers[target][i]
                  /\ NewCalls[i].from_state = state
                  /\ NewCalls[i].to_state = target
                  /\ NewCalls[i].seen_state = target
                  /\ NewCalls[i].seen_saved = Some(Name(target))]_vars

\* A transition into a level with two handlers, the first of which raised
\* and the second of which still ran, while another level has handlers too.
C12_Witness ==
    /\ ret.op = "change_state"
    /\ ret.value = Some(TRUE)
    /\ Len(event_handlers[state]) = 2
    /\ event_handlers[state][1] \in RaisingHandlers
    /\ event_handlers[state][2] \notin RaisingHandlers
    /\ \E s \in ConsciousnessState \ {state} : event_handlers[s] # <<>>
    /\ Len(invoked) >= 2
    /\ invoked[Len(invoked) - 1].handler = event_handlers[state][1]
    /\ invoked[Len(invoked) - 1].raised
    /\ Last(invoked).handler = event_handlers[state][2]
    /\ Last(invoked).to_state = state
    /\ Last(state_history).to_state = state

(* C13: each tick first drains the pending notifications: none that was   *)
(* enqueued before the tick started is still queued when the tick runs its *)
(* state tasks.  The tasks and the time checks only append, so after the   *)
(* tick the queue would hold the transitions of this tick and no other.    *)
C13_TickDrainsQueue ==
    [][\A m \in Readings(state) :
          Tick(m, MaxCadenceHist) =>
            /\ Drain(Self).state_queue = <<>>
            /\ Len(state_queue') <= Len(state_history') - Len(state_history)]_vars

\* An item of a document that is what the writer would have written.
WellFormedEntry(entry) ==
    /\ DOMAIN entry = {"from_state", "to_state", "reason", "timestamp"}
    /\ \E a, b \in ConsciousnessState :
          entry.from_state = Name(a) /\ entry.to_state = Name(b)
    /\ ValidIso(entry.timestamp)

RECURSIVE WellFormedOnly(_)
WellFormedOnly(entries) ==
    IF entries = <<>> THEN <<>>
    ELSE (IF WellFormedEntry(Head(entries)) THEN <<Head(entries)>> ELSE <<>>)
         \o WellFormedOnly(Tail(entries))

(* C14: loading a persisted document falls back per field: an unknown      *)
(* level name leaves the level at the constructor's default, a malformed   *)
(* history entry or an invalid activity timestamp is dropped alone, and    *)
(* every valid item of the same and of the other fields is still loaded.   *)
C14_LoadFallsBackPerField ==
    [][(ret'.op = "restart" /\ state_file # <<>>) =>
          LET doc == state_file[1]
              good == WellFormedOnly(doc.history)
              known == {k \in DOMAIN doc.last_activity :
                           ValidIso(doc.last_activity[k])}
          IN  /\ state' = IF StateByName(doc.state) = <<>> THEN DORMANT
                          ELSE StateByName(doc.state)[1]
              /\ Len(state_history') = Len(good)
              /\ \A i \in DOMAIN good :
                    /\ Name(state_history'[i].from_state) = good[i].from_state
                    /\ Name(state_history'[i].to_state) = good[i].to_state
                    /\ state_history'[i].reason = good[i].reason
                    /\ isoformat(state_history'[i].timestamp) = good[i].timestamp
              /\ DOMAIN last_activity' = known
              /\ \A k \in known :
                    isoformat(last_activity'[k]) = doc.last_activity[k]]_vars

(* C15: a status reader running concurrently with change_state or          *)
(* log_activity never observes a partially applied mutation: it never sees *)
(* the new transition in the history while the level is still the old one, *)
(* and it never reads a persisted document that is incomplete.             *)
C15_ReadersSeeWholeMutations ==
    /\ ret.op = "get_state_info" =>
          LET info == ret.value[1]
          IN  info.recent_history # <<>> =>
                 Last(info.recent_history).to_state = info.current_state
    /\ ret.op = "read_state_file" => ret.value[1] # Incomplete

\* The monitor threads inside the loop body, and those that have not left
\* the loop.
Ticking == {t \in DOMAIN threads : threads[t] = "tick"}
Looping == {t \in DOMAIN threads : threads[t] # "done"}

(* C16: for every sequence of start() and stop() calls at most one monitor *)
(* loop executes ticks at any time: start() while active creates no second *)
(* loop and a start() after stop() never runs alongside a loop started     *)
(* earlier, so two ticks never overlap.                                    *)
C16_TicksNeverOverlap ==
    /\ Cardinality(Ticking) <= 1
    /\ active => Cardinality(Looping) <= 1

(* C17: after stop(), and until start() is called again, the monitor loop  *)
(* begins no new tick and eventually exits; stop() itself moves no thread, *)
(* so a tick in progress runs to its end.                                  *)
C17_StopEndsTheLoop ==
    /\ [][~active => \A t \in DOMAIN threads :
                        threads'[t] = "tick" => threads[t] = "tick"]_vars
    /\ [][ret'.op = "stop" /\ ret.op # "stop" => threads' = threads]_vars
    /\ ~active ~> (active \/ Looping = {})

\* stop() was the last call, the thread it stopped has run a tick (the
\* level's analysis is on record) and has left the loop.
C17_Witness ==
    /\ ret.op = "stop"
    /\ ~active
    /\ threads # <<>>
    /\ Looping = {}
    /\ last_activity # <<>>

\* The reasons of the time-based transitions that lower the level.
DecayTexts ==
    {"Time limit reached for fully awake state",
     "Time limit reached for alert state",
     "Time limit reached for aware state",
     "Analysis complete, returning to dormant state"}

\* The positions, among the transitions a step appends, of the decays.
NewDecays ==
    {i \in 1..(Len(state_history') - Len(state_history)) :
        NewEntry(i).reason.text \in DecayTexts}

(* C18: every time-based decay lowers the level by exactly one step        *)
(* (FULLY_AWAKE to ALERT, ALERT to AWARE, AWARE to DROWSY, DROWSY to       *)
(* DORMANT), and one tick applies at most one decay.                       *)
C18_DecayOneStep ==
    [][\A m \in Readings(state) :
          Tick(m, MaxHist) =>
            /\ Appended(0)
            /\ Cardinality(NewDecays) <= 1
            /\ \A i \in NewDecays :
                  /\ NewEntry(i).to_state = NewEntry(i).from_state - 1
                  /\ NewEntry(i).from_state \in {DROWSY, AWARE, ALERT, FULLY_AWAKE}]_vars

\* Three decays in three ticks: ALERT to AWARE, AWARE to DROWSY, DROWSY to
\* DORMANT.
C18_Witness ==
    /\ ret.op = "tick"
    /\ Len(state_history) = 3
    /\ \A i \in 1..3 :
          /\ state_history[i].reason.text \in DecayTexts
          /\ state_history[i].from_state = 5 - i
          /\ state_history[i].to_state = 4 - i
    /\ state_history[1].timestamp < state_history[2].timestamp
    /\ state_history[2].timestamp < state_history[3].timestamp
    /\ state = DORMANT

-----------------------------------------------------------------------------
(* The analyses on short and on constant series, under SpecAnalyses. *)

Asked(op) == ret.op = op
Given == ret.arg[1].values
Result == ret.value[1]

\* The results of detect_anomalies and forecast_metric on a series below
\* their minimum: an explicit refusal with no statistics in it.
AnomaliesRefused ==
    Asked("detect_anomalies") /\ Len(Given) < 3 =>
        /\ Result.anomalies_detected = FALSE
        /\ Result.reason = "Insufficient data points"
        /\ DOMAIN Result = {"anomalies_detected", "reason"}

ForecastRefused ==
    Asked("forecast_metric") /\ Len(Given) < 24 =>
        /\ Result.success = FALSE
        /\ Result.required_points = 24
        /\ Result.available_points = Len(Given)
        /\ DOMAIN Result =
              {"available_points", "error", "required_points", "success"}

C20_ConstantSeriesHasNoAnomalies ==
    Asked("detect_anomalies") /\ Len(Given) >= 3
        /\ (\A i \in DOMAIN Given : Given[i] = Given[1]) =>
        /\ Result.anomalies_detected = FALSE
        /\ Result.anomalies = <<>>

-----------------------------------------------------------------------------
(* The forecasting models, under SpecForecast. *)

Argument == ret.arg[1]

\* C21: when the weight optimisation runs (at least 72 points, a validation
\* set of at least 12), the weights returned for the three models sum to 1
\* and each of them is at least 0.1, whatever the validation errors.
C21_WeightsFloored ==
    Asked("_ensemble_forecast") /\ Argument.points >= 72
        /\ (Argument.points * 2) \div 10 >= 12 =>
        /\ Total(Result.weights) = Whole(1)
        /\ \A k \in {"linear", "seasonal", "exponential"} :
              ~Below(Result.weights[k], Ratio(1, 10))

\* C22: for a series of at least two points lying on the line
\* value = a + b * hours, the linear model's forecast for hours_ahead is
\* a + b * (x_last + hours_ahead), the last value plus b * hours_ahead.
C22_LinearOnALine ==
    Asked("_linear_forecast") /\ Len(Argument.x) >= 2 =>
        \A a \in Intercepts, b \in Slopes :
            Argument.y = OnLine(Argument.x, a, b) =>
                LET last == Argument.x[Len(Argument.x)]
                IN  /\ Result.forecast_y
                          = Whole(a + b * (last + Argument.hours_ahead))
                    /\ Result.forecast_y
                          = Whole(Argument.y[Len(Argument.y)]
                                     + b * Argument.hours_ahead)

C22_Witness ==
    /\ Asked("_linear_forecast")
    /\ Argument.x = Hourly(25)
    /\ Argument.y = OnLine(Hourly(25), 10, 1)
    /\ Argument.hours_ahead = 24
    /\ Result.forecast_y = Whole(58)

-----------------------------------------------------------------------------
(* The maintenance schedule, under SpecSchedule. *)

Forecast(metric) == Argument.forecasts[metric]

\* The slots as generate_schedule leaves them, and those holding an activity.
Slots == Result.time_slots
Holding(activity_name) ==
    {i \in DOMAIN Slots :
        \E k \in DOMAIN Slots[i].activities :
            Slots[i].activities[k] = activity_name}

\* An activity's precondition on a slot: disk usage above 70 for the log
\* rotation, free memory below 500 MB for the memory cleanup, CPU load below
\* 0.5 for the security scan, a score above 200 for the backup.
Precondition(activity_name, i) ==
    CASE activity_name = "log_rotation" ->
            Forecast("disk_usage_root") # None
                /\ Forecast("disk_usage_root")[1] > 70
      [] activity_name = "memory_cleanup" ->
            Forecast("memory_free_mb") # None
                /\ Forecast("memory_free_mb")[1] < 50
      [] activity_name = "security_scan" ->
            Forecast("cpu_load") # None /\ Forecast("cpu_load")[1] < 50
      [] activity_name = "system_backup" -> Slots[i].score > 200

ActivityNames ==
    {"log_rotation", "memory_cleanup", "security_scan", "system_backup"}

\* C23: an activity whose precondition no slot satisfies (the log rotation
\* when the disk forecast is not above 70) is left unassigned, and every
\* activity whose precondition some slot satisfies is still assigned.
C23_UnmetActivityLeftOut ==
    Asked("generate_schedule") =>
        \A a \in ActivityNames :
            IF \E i \in DOMAIN Slots : Precondition(a, i)
            THEN Holding(a) # {}
            ELSE Holding(a) = {}

C23_Witness ==
    /\ Asked("generate_schedule")
    /\ Forecast("disk_usage_root") = Some(60)
    /\ Holding("log_rotation") = {}
    /\ Holding("memory_cleanup") # {}
    /\ Holding("security_scan") # {}
    /\ Holding("system_backup") # {}

Clamped(v) == IF v < 0 THEN 0 ELSE IF v > 100 THEN 100 ELSE v

\* C24: every slot's score is cpuScore + memoryScore + diskScore, each of
\* them within 0..100 whatever the forecast, plus 50 when the slot's hour of
\* the day is below 7 or at least 19, plus 25 when it falls on a weekend day.
C24_SlotScore ==
    Asked("generate_schedule") =>
        \A i \in DOMAIN Slots :
            Slots[i].score =
                (IF Forecast("cpu_load") = None THEN 0
                 ELSE Clamped(100 - Forecast("cpu_load")[1]))
                + (IF Forecast("memory_free_mb") = None THEN 0
                   ELSE Clamped(Forecast("memory_free_mb")[1]))
                + (IF Forecast("disk_usage_root") = None THEN 0
                   ELSE Clamped(100 - Forecast("disk_usage_root")[1]))
                + (IF Slots[i].hour_of_day < 7 \/ Slots[i].hour_of_day >= 19
                   THEN 50 ELSE 0)
                + (IF Slots[i].day >= 5 THEN 25 ELSE 0)

\* The activities processed before a given one.
Earlier(activity_name) ==
    CASE activity_name = "log_rotation" -> {}
      [] activity_name = "memory_cleanup" -> {"log_rotation"}
      [] activity_name = "security_scan" -> {"log_rotation", "memory_cleanup"}
      [] activity_name = "system_backup" ->
            {"log_rotation", "memory_cleanup", "security_scan"}

\* C27: in the schedule every slot holds at most one activity, every
\* activity has at most one slot, an activity's slot is the highest-scoring
\* one that was free and met its precondition when the activity was
\* processed (the earliest among equal scores), and the output is exactly the
\* occupied slots.
C27_BestFreeSlot ==
    Asked("generate_schedule") =>
        /\ \A i \in DOMAIN Slots : Len(Slots[i].activities) <= 1
        /\ \A a \in ActivityNames : Cardinality(Holding(a)) <= 1
        /\ \A a \in ActivityNames : \A i \in Holding(a) :
              /\ Precondition(a, i)
              /\ \A j \in DOMAIN Slots \ {i} :
                    /\ Precondition(a, j)
                    /\ \A b \in Earlier(a) : j \notin Holding(b)
                    => \/ Slots[j].score < Slots[i].score
                       \/ /\ Slots[j].score = Slots[i].score
                          /\ Slots[j].timestamp > Slots[i].timestamp
        /\ {Result.schedule[k] : k \in DOMAIN Result.schedule}
              = {Slots[i] : i \in {j \in DOMAIN Slots :
                                      Slots[j].activities # <<>>}}
        /\ Len(Result.schedule)
              = Cardinality({j \in DOMAIN Slots : Slots[j].activities # <<>>})

C27_Witness ==
    /\ Asked("generate_schedule")
    /\ Result.scheduled_count = 4
    /\ \E i \in Holding("log_rotation"), j \in Holding("memory_cleanup") :
          /\ Slots[i].score = Slots[j].score
          /\ Slots[i].timestamp < Slots[j].timestamp

-----------------------------------------------------------------------------
(* The DROWSY level: its analysis and its return to DORMANT. *)

\* C25, under SpecVisits: the time-based transition from DROWSY to DORMANT is
\* made only when a drowsy analysis was run during the current DROWSY visit
\* (at or after the time DROWSY was entered) and more than 15 minutes have
\* passed since that run.
C25_DormantAfterOwnAnalysis ==
    [][\A i \in 1..(Len(state_history') - Len(state_history)) :
          /\ Appended(i)
          /\ NewEntry(i).reason.text
                = "Analysis complete, returning to dormant state"
          => /\ state = DROWSY
             /\ "drowsy_analysis" \in DOMAIN last_activity
             /\ last_activity["drowsy_analysis"] >= last_state_change
             /\ now - last_activity["drowsy_analysis"] > 15]_vars

\* C26, under Spec: a tick in DROWSY whose light scan is run and reads a CPU
\* load above 1.5 moves the controller to a higher level.
C26_DrowsyScanEscalates ==
    [][\A m \in Readings(state) :
          /\ Tick(m, MaxHist)
          /\ state = DROWSY
          /\ ~m.bad /\ m.cpu_load > 150
          /\ "drowsy_analysis" \in DOMAIN last_activity'
          /\ last_activity'["drowsy_analysis"] = now
          => state' > DROWSY]_vars

-----------------------------------------------------------------------------
(* The queries, under SpecQueries. *)

\* C28: should_transition and get_state_info are read-only: whatever the
\* level, history and target, they leave the level, the history, the
\* activity record, the notification queue and the persisted document as
\* they were; and should_transition(current level) returns none.
C28_QueriesReadOnly ==
    [][ret' # ret /\ ret'.op \in {"should_transition", "get_state_info"} =>
          /\ UNCHANGED <<state, state_history, last_activity, state_queue,
                         state_file>>
          /\ ret'.op = "should_transition" /\ ret'.arg = Some(state) =>
                ret'.value = None]_vars

C28_Witness ==
    /\ ret.op = "should_transition"
    /\ ret.arg = Some(state)
    /\ ret.value = None
    /\ Len(state_history) = 2
    /\ state_file # <<>>
    /\ "user_activity" \in DOMAIN last_activity

-----------------------------------------------------------------------------
(* The way down, under SpecDecay. *)

-----------------------------------------------------------------------------
(* The history as a chain, under SpecChain. *)

\* C30: after any sequence of change_state calls (those made by handlers
\* from inside change_state included), loads and ticks on one thread, each
\* entry of the history starts at the level the entry before it ends at, no
\* entry starts and ends at the same level, and the last entry, when there
\* is one, ends at the current level.
C30_HistoryIsAChain ==
    /\ \A i \in 2..Len(state_history) :
          state_history[i].from_state = state_history[i - 1].to_state
    /\ \A i \in DOMAIN state_history :
          state_history[i].from_state # state_history[i].to_state
    /\ state_history # <<>> => Last(state_history).to_state = state

\* A restart after a change_state to ALERT whose handler asked for AWARE,
\* whose handler in turn asked for DORMANT.
C30_Witness ==
    /\ ret.op = "restart"
    /\ Len(state_history) = 3
    /\ state_history[1].to_state = ALERT
    /\ state_history[2].reason.text = "Handler request"
    /\ state_history[3].reason.text = "Handler request"
    /\ state = DORMANT

====
